---- MODULE Spec2Model ----
(***************************************************************************)
(* A model of the interview agent: the endpointed recorder of audio.py,    *)
(* the evaluation engine of evaluator.py, the code evaluator of            *)
(* code_evaluator.py and the interview loop of main.py.                    *)
(*                                                                         *)
(* Python strings are sequences of one-character strings, so that          *)
(* str.lower, str.split, str.strip, str.count and the regular expressions  *)
(* of the parsers are computed character by character, as the code does.   *)
(***************************************************************************)
EXTENDS Integers, Sequences, FiniteSets, TLC

(***************************************************************************)
(* Python string primitives                                                *)
(***************************************************************************)
UpperChars == <<"A","B","C","D","E","F","G","H","I","J","K","L","M","N","O","P","Q","R","S","T","U","V","W","X","Y","Z">>

LowerChars == <<"a","b","c","d","e","f","g","h","i","j","k","l","m","n","o","p","q","r","s","t","u","v","w","x","y","z">>

\* str.isspace for one character
IsSpace(c) == c \in {" ", "\n", "\t"}

\* re's \d for one character, and int() of it
DigitChars == <<"0","1","2","3","4","5","6","7","8","9">>

IsDigit(c) == \E k \in 1..10 : DigitChars[k] = c

DigitValue(c) == (CHOOSE k \in 1..10 : DigitChars[k] = c) - 1

UpperSet == { UpperChars[k] : k \in 1..26 }

LowerMap == [c \in UpperSet |-> LowerChars[CHOOSE k \in 1..26 : UpperChars[k] = c]]

LowerChar(c) == IF c \in UpperSet THEN LowerMap[c] ELSE c

\* str.lower()
Lower(s) == SubSeq([i \in 1..Len(s) |-> LowerChar(s[i])], 1, Len(s))

\* the first position at or after i that holds no whitespace, Len(s) + 1 if none
SkipSpaces(s, i) ==
    CHOOSE j \in i..(Len(s) + 1) :
        /\ j = Len(s) + 1 \/ ~IsSpace(s[j])
        /\ \A k \in i..(j - 1) : IsSpace(s[k])

\* the last position at or before j that holds no whitespace, 0 if none
SkipSpacesBack(s, j) ==
    j - (CHOOSE d \in 0..j :
            /\ d = j \/ ~IsSpace(s[j - d])
            /\ \A k \in (j - d + 1)..j : IsSpace(s[k]))

\* str.strip()
Strip(s) == SubSeq(s, SkipSpaces(s, 1), SkipSpacesBack(s, Len(s)))

\* the last position of the word that starts at i
WordEnd(s, i) ==
    CHOOSE e \in i..Len(s) :
        /\ e = Len(s) \/ IsSpace(s[e + 1])
        /\ \A k \in i..e : ~IsSpace(s[k])

RECURSIVE SplitFrom(_, _)
SplitWord(s, i, e) == << SubSeq(s, i, e) >> \o SplitFrom(s, e + 1)

SplitFrom(s, i) ==
    LET b == SkipSpaces(s, i)
    IN  IF b > Len(s) THEN << >> ELSE SplitWord(s, b, WordEnd(s, b))

\* str.split(): the maximal runs of non-whitespace characters, in order
Split(s) == SplitFrom(s, 1)

\* s[i:] starts with sub
StartsAt(s, sub, i) ==
    /\ i + Len(sub) - 1 <= Len(s)
    /\ s[i] = sub[1]
    /\ SubSeq(s, i, i + Len(sub) - 1) = sub

\* the positions at which sub occurs in s, enumerated once
Occurrences(s, sub) ==
    { h : h \in { i \in 1..(Len(s) - Len(sub) + 1) :
                    s[i] = sub[1] /\ SubSeq(s, i, i + Len(sub) - 1) = sub } }

RECURSIVE CountFrom(_, _, _)
CountFrom(hits, n, from) ==
    LET later == { h \in hits : h >= from }
    IN  IF later = {} THEN 0
        ELSE 1 + CountFrom(later, n, (CHOOSE h \in later : \A g \in later : h <= g) + n)

\* str.count(sub): the non-overlapping occurrences of sub, taken left to right
Count(s, sub) == CountFrom(Occurrences(s, sub), Len(sub), 1)

RECURSIVE SumCountsFrom(_, _, _)
SumCountsFrom(s, phrases, k) ==
    IF k > Len(phrases) THEN 0
    ELSE Count(s, phrases[k]) + SumCountsFrom(s, phrases, k + 1)

\* sum(text.count(phrase) for phrase in phrases)
SumCounts(s, phrases) == SumCountsFrom(s, phrases, 1)

IsTerminator(c) == c \in {".", "!", "?"}

\* the first position at or after i that holds a terminator, Len(s) + 1 if none
SegmentEnd(s, i) ==
    CHOOSE e \in i..(Len(s) + 1) :
        /\ e = Len(s) + 1 \/ IsTerminator(s[e])
        /\ \A k \in i..(e - 1) : ~IsTerminator(s[k])

\* the segments between terminators from position i on that are not blank
RECURSIVE SentencesFrom(_, _)
SentencesFrom(s, i) ==
    IF i > Len(s) THEN 0
    ELSE LET e == SegmentEnd(s, i)
         IN  (IF \E k \in i..(e - 1) : ~IsSpace(s[k]) THEN 1 ELSE 0) + SentencesFrom(s, e + 1)

\* len([x.strip() for x in re.split(r'[.!?]+', s) if x.strip()])
SentenceCount(s) == SentencesFrom(s, 1)

RECURSIVE ConcatAll(_)
ConcatAll(ss) == IF ss = << >> THEN << >> ELSE Head(ss) \o ConcatAll(Tail(ss))

Max(a, b) == IF a >= b THEN a ELSE b

Min(a, b) == IF a <= b THEN a ELSE b

(***************************************************************************)
(* evaluator.py: the fixed lists                                           *)
(***************************************************************************)
score_categories == << "Relevance", "Clarity", "Confidence", "Technical Accuracy" >>

CategorySet == { score_categories[k] : k \in 1..Len(score_categories) }

common_words ==
    { <<"t","h","e">>,
      <<"a">>,
      <<"a","n">>,
      <<"i","s">>,
      <<"a","r","e">>,
      <<"w","a","s">>,
      <<"w","e","r","e">>,
      <<"o","f">>,
      <<"t","o">>,
      <<"i","n">>,
      <<"f","o","r">>,
      <<"a","n","d">>,
      <<"o","r">> }

filler_words ==
    << <<"u","m">>,
       <<"u","h">>,
       <<"l","i","k","e">>,
       <<"y","o","u"," ","k","n","o","w">>,
       <<"b","a","s","i","c","a","l","l","y">>,
       <<"a","c","t","u","a","l","l","y">>,
       <<"l","i","t","e","r","a","l","l","y">> >>

uncertain_phrases ==
    << <<"i"," ","t","h","i","n","k">>,
       <<"m","a","y","b","e">>,
       <<"i"," ","g","u","e","s","s">>,
       <<"i","'","m"," ","n","o","t"," ","s","u","r","e">>,
       <<"p","r","o","b","a","b","l","y">>,
       <<"i"," ","d","o","n","'","t"," ","k","n","o","w">>,
       <<"p","e","r","h","a","p","s">>,
       <<"k","i","n","d"," ","o","f">>,
       <<"s","o","r","t"," ","o","f">>,
       <<"i"," ","b","e","l","i","e","v","e">> >>

confident_phrases ==
    << <<"i"," ","k","n","o","w">>,
       <<"d","e","f","i","n","i","t","e","l","y">>,
       <<"c","e","r","t","a","i","n","l","y">>,
       <<"a","b","s","o","l","u","t","e","l","y">>,
       <<"c","l","e","a","r","l","y">>,
       <<"o","b","v","i","o","u","s","l","y">>,
       <<"i","'","m"," ","c","o","n","f","i","d","e","n","t">>,
       <<"w","i","t","h","o","u","t"," ","a"," ","d","o","u","b","t">>,
       <<"i","'","m"," ","c","e","r","t","a","i","n">> >>

technical_indicators ==
    << <<"a","l","g","o","r","i","t","h","m">>,
       <<"d","a","t","a"," ","s","t","r","u","c","t","u","r","e">>,
       <<"c","o","m","p","l","e","x","i","t","y">>,
       <<"o","p","t","i","m","i","z","a","t","i","o","n">>,
       <<"a","r","c","h","i","t","e","c","t","u","r","e">>,
       <<"d","e","s","i","g","n"," ","p","a","t","t","e","r","n">>,
       <<"a","p","i">>,
       <<"d","a","t","a","b","a","s","e">>,
       <<"s","y","s","t","e","m">>,
       <<"f","r","a","m","e","w","o","r","k">>,
       <<"i","m","p","l","e","m","e","n","t","a","t","i","o","n">>,
       <<"i","n","t","e","r","f","a","c","e">>,
       <<"m","e","t","h","o","d">>,
       <<"f","u","n","c","t","i","o","n">>,
       <<"c","l","a","s","s">>,
       <<"o","b","j","e","c","t">>,
       <<"v","a","r","i","a","b","l","e">>,
       <<"p","a","r","a","m","e","t","e","r">>,
       <<"m","e","m","o","r","y">>,
       <<"p","e","r","f","o","r","m","a","n","c","e">>,
       <<"s","c","a","l","a","b","i","l","i","t","y">>,
       <<"s","e","c","u","r","i","t","y">>,
       <<"t","e","s","t","i","n","g">>,
       <<"d","e","b","u","g","g","i","n","g">>,
       <<"d","e","p","l","o","y","m","e","n","t">>,
       <<"i","n","t","e","g","r","a","t","i","o","n">>,
       <<"p","r","o","t","o","c","o","l">>,
       <<"e","n","c","r","y","p","t","i","o","n">>,
       <<"a","u","t","h","e","n","t","i","c","a","t","i","o","n">> >>

(***************************************************************************)
(* evaluator.py: the Heuristic Strategy                                    *)
(***************************************************************************)
\* "not transcription or len(transcription.strip()) == 0"
IsBlank(transcription) == transcription = << >> \/ Strip(transcription) = << >>

_evaluate_relevance(q, transcription) ==
    IF IsBlank(transcription) THEN 1
    ELSE LET words == Split(Lower(transcription))
             qwords == Split(Lower(q))
             question_keywords == { qwords[k] : k \in 1..Len(qwords) } \ common_words
             overlap == Cardinality({ k \in 1..Len(words) : words[k] \in question_keywords })
         IN  IF Len(words) < 5 THEN 2
             ELSE IF overlap = 0 THEN 2
             ELSE IF overlap <= 2 THEN 3
             ELSE IF overlap <= 4 THEN 4
             ELSE 5

_evaluate_clarity(transcription) ==
    IF IsBlank(transcription) THEN 1
    ELSE LET word_count == Len(Split(transcription))
             sentences == SentenceCount(transcription)
             filler_count == SumCounts(Lower(transcription), filler_words)
             \* filler_ratio = filler_count / max(word_count, 1), compared exactly
             denom == Max(word_count, 1)
         IN  IF word_count < 5 THEN 2
             ELSE IF 5 * filler_count > denom THEN 2
             ELSE IF 10 * filler_count > denom THEN 3
             ELSE IF word_count < 20 THEN 3
             ELSE IF sentences >= 2 /\ word_count >= 30 THEN 5
             ELSE 4

_evaluate_confidence(transcription) ==
    IF IsBlank(transcription) THEN 1
    ELSE LET text_lower == Lower(transcription)
             uncertain_count == SumCounts(text_lower, uncertain_phrases)
             confident_count == SumCounts(text_lower, confident_phrases)
             word_count == Len(Split(transcription))
         IN  IF word_count < 5 THEN 2
             ELSE IF uncertain_count > confident_count + 2 THEN 2
             ELSE IF uncertain_count > confident_count THEN 3
             ELSE IF confident_count > uncertain_count THEN 5
             ELSE 4

\* Faulty variant of _evaluate_technical_accuracy: the term count is looked at
\* before the word count.
_evaluate_technical_accuracy_terms_first(q, transcription) ==
    IF IsBlank(transcription) THEN 1
    ELSE LET text_lower == Lower(transcription)
             technical_count == SumCounts(text_lower, technical_indicators)
             word_count == Len(Split(transcription))
         IN  IF technical_count = 0 THEN 2
             ELSE IF technical_count <= 2 THEN 3
             ELSE IF word_count < 5 THEN 2
             ELSE IF technical_count <= 4 THEN 4
             ELSE 5

\* Faulty variant of _evaluate_technical_accuracy: the last branch returns 4.
_evaluate_technical_accuracy_no_top(q, transcription) ==
    IF IsBlank(transcription) THEN 1
    ELSE LET text_lower == Lower(transcription)
             technical_count == SumCounts(text_lower, technical_indicators)
             word_count == Len(Split(transcription))
         IN  IF word_count < 5 THEN 2
             ELSE IF technical_count = 0 THEN 2
             ELSE IF technical_count <= 2 THEN 3
             ELSE 4

_evaluate_technical_accuracy(q, transcription) ==
    IF IsBlank(transcription) THEN 1
    ELSE LET text_lower == Lower(transcription)
             technical_count == SumCounts(text_lower, technical_indicators)
             word_count == Len(Split(transcription))
         IN  IF word_count < 5 THEN 2
             ELSE IF technical_count = 0 THEN 2
             ELSE IF technical_count <= 2 THEN 3
             ELSE IF technical_count <= 4 THEN 4
             ELSE 5

_evaluate_fallback(q, transcription) ==
    ("Relevance" :> _evaluate_relevance(q, transcription)) @@
    ("Clarity" :> _evaluate_clarity(transcription)) @@
    ("Confidence" :> _evaluate_confidence(transcription)) @@
    ("Technical Accuracy" :> _evaluate_technical_accuracy(q, transcription))

(***************************************************************************)
(* evaluator.py: the Remote Strategy                                       *)
(***************************************************************************)
\* the literal text of the four patterns, before "\s*(\d)"
PatternLabel(category) ==
    CASE category = "Relevance" -> <<"R","e","l","e","v","a","n","c","e",":">>
      [] category = "Clarity" -> <<"C","l","a","r","i","t","y",":">>
      [] category = "Confidence" -> <<"C","o","n","f","i","d","e","n","c","e",":">>
      [] category = "Technical Accuracy" -> <<"T","e","c","h","n","i","c","a","l"," ","A","c","c","u","r","a","c","y",":">>

\* label\s*(\d) matches at position i of s; low is s in lower case and label
\* is in lower case (re.IGNORECASE)
MatchesAt(s, low, label, i) ==
    /\ StartsAt(low, label, i)
    /\ LET j == SkipSpaces(s, i + Len(label)) IN j <= Len(s) /\ IsDigit(s[j])

\* the leftmost position at which label\s*(\d) matches, 0 when there is none
FirstMatch(s, low, label) ==
    LET hits == { h : h \in { i \in 1..Len(s) : MatchesAt(s, low, label, i) } }
    IN  IF hits = {} THEN 0 ELSE CHOOSE h \in hits : \A g \in hits : h <= g

\* re.search(label\s*(\d), s, re.IGNORECASE): int(group(1)) of the leftmost
\* match, NoMatch when there is none
NoMatch == -1

SearchDigit(s, label) ==
    LET i == FirstMatch(s, Lower(s), Lower(label))
    IN  IF i = 0 THEN NoMatch
        ELSE DigitValue(s[SkipSpaces(s, i + Len(label))])

EmptyDict == [k \in {} |-> 0]

\* Faulty variant of Clamp: the score is stored as parsed
ClampOmitted(score) == score

\* max(1, min(5, score))
Clamp(score) == Max(1, Min(5, score))

\* "scores" after the loop has handled the patterns k, k + 1, ... on top of
\* the entries in scores
RECURSIVE ParsedScoresFrom(_, _, _)
ParsedScoresFrom(llm_response, scores, k) ==
    IF k > Len(score_categories) THEN scores
    ELSE LET category == score_categories[k]
             score == SearchDigit(llm_response, PatternLabel(category))
         IN  ParsedScoresFrom(llm_response,
                              IF score = NoMatch THEN scores
                              ELSE (category :> Clamp(score)) @@ scores,
                              k + 1)

\* what the loop over the patterns leaves in "scores"
ParsedScores(llm_response) == ParsedScoresFrom(llm_response, EmptyDict, 1)

\* Faulty variant of _parse_llm_scores: the length test is dropped
_parse_llm_scores_partial(llm_response) == ParsedScores(llm_response)

_parse_llm_scores(llm_response) ==
    LET parsed_scores == ParsedScores(llm_response)
    IN  IF Cardinality(DOMAIN parsed_scores) = 4 THEN parsed_scores ELSE EmptyDict

\* A call either returns a value or raises
Returned(v) == [raised |-> FALSE, value |-> v]

Raised == [raised |-> TRUE, value |-> EmptyDict]

\* outcome of client.chat.completions.create(...) followed by
\* response.choices[0].message.content.strip(): a text, or an exception
\* (network error, API error, missing content)
RemoteText(text) == [kind |-> "text", text |-> text]

RemoteError == [kind |-> "error", text |-> << >>]

NoRemoteCall == [kind |-> "none", text |-> << >>]

\* Faulty variant of _evaluate_with_llm: the exception of the remote call propagates
_evaluate_with_llm_raising(q, transcription, outcome) ==
    IF outcome.kind = "text"
    THEN LET parsed_scores == _parse_llm_scores(Strip(outcome.text))
         IN  IF DOMAIN parsed_scores # {}
             THEN Returned(parsed_scores)
             ELSE Returned(_evaluate_fallback(q, transcription))
    ELSE Raised

_evaluate_with_llm(q, transcription, outcome) ==
    IF outcome.kind = "text"
    THEN LET result_text == Strip(outcome.text)
             parsed_scores == _parse_llm_scores(result_text)
         IN  IF DOMAIN parsed_scores # {}
             THEN Returned(parsed_scores)
             ELSE Returned(_evaluate_fallback(q, transcription))
    ELSE \* except Exception
         Returned(_evaluate_fallback(q, transcription))

\* evaluate_response: "if self.client" chooses the strategy
EvaluateResponse(has_client, q, transcription, outcome) ==
    IF has_client THEN _evaluate_with_llm(q, transcription, outcome)
    ELSE Returned(_evaluate_fallback(q, transcription))

\* __init__: the client exists iff the key is set, is not the placeholder,
\* and the OpenAI constructor did not raise
PlaceholderKey == "your_groq_api_key_here"

MakeClient(key, constructed) == key # "" /\ key # PlaceholderKey /\ constructed

(***************************************************************************)
(* Inputs of the evaluation engine                                         *)
(***************************************************************************)
\* Transcripts are concatenations of at most MaxPieces of these pieces
MaxPieces == 3

PieceFiller == <<"u","m"," ","l","i","k","e"," ">>

PieceTech == <<"t","h","e"," ","A","P","I"," ","s","y","s","t","e","m"," ">>

PieceConfident == <<"I"," ","K","n","o","w"," ">>

PieceUncertain == <<"m","a","y","b","e"," ","p","e","r","h","a","p","s"," ">>

PieceLong == <<"w","e"," ","d","o"," ","i","t"," ","s","o"," ","w","e"," ","d","o"," ","i","t"," ","s","o"," ","w","e"," ","g","o","."," ">>

PieceBlank == <<" ">>

\* two words that hold five technical terms
TranscriptDense == <<"A","P","I","s","y","s","t","e","m"," ","d","a","t","a","b","a","s","e","A","P","I","m","e","m","o","r","y">>

Pieces == << PieceFiller, PieceTech, PieceConfident, PieceUncertain, PieceLong >>

\* the choices of at most MaxPieces pieces, repetitions allowed, in the order of Pieces
PieceChoices ==
    UNION { { f \in [1..k -> 1..Len(Pieces)] : \A a \in 1..(k - 1) : f[a] <= f[a + 1] } :
            k \in 0..MaxPieces }

\* the empty transcript, a whitespace-only one, and the concatenations of pieces
Transcripts ==
    { PieceBlank \o PieceBlank, TranscriptDense } \cup
    { ConcatAll([a \in 1..Len(f) |-> Pieces[f[a]]]) : f \in PieceChoices }

QuestionApi == <<"E","x","p","l","a","i","n"," ","t","h","e"," ","a","p","i"," ","s","y","s","t","e","m">>

QuestionProject == <<"T","e","l","l"," ","m","e"," ","a","b","o","u","t"," ","a"," ","p","r","o","j","e","c","t">>

Questions == { QuestionApi, QuestionProject }

ApiKeys == { "", PlaceholderKey, "gsk_key" }

\* The lines a remote answer can hold for one category: none, a label without
\* a number, the requested form, lower case without a space, a digit above 5,
\* a two-digit number, and a label wrapped in markdown
LineOptions(label) ==
    << << >>,
       label \o <<" ","h","i","g","h","\n">>,
       label \o <<" ","4","\n">>,
       Lower(label) \o <<"0","\n">>,
       label \o <<" "," ","9","\n">>,
       label \o <<" ","1","0","\n">>,
       <<"*","*">> \o SubSeq(label, 1, Len(label) - 1) \o <<"*","*",":"," ","4","\n">> >>

OptionIds == DOMAIN LineOptions(<< >>)

WellFormedLine(label) == label \o <<" ","4","\n">>

ResponseOf(f) ==
    ConcatAll([k \in 1..Len(score_categories) |->
                  LineOptions(PatternLabel(score_categories[k]))[f[score_categories[k]]]])

ResponseChoices == [CategorySet -> OptionIds]

\* every combination of the line options
ResponseTexts == { ResponseOf(f) : f \in ResponseChoices }

AbsentOption == CHOOSE o \in OptionIds : LineOptions(<< >>)[o] = << >>

WellFormedOption == CHOOSE o \in OptionIds : LineOptions(<< >>)[o] = WellFormedLine(<< >>)

\* the answers that use one line option for all four categories, and the
\* answers in the requested form with the line of one category missing
NearResponseTexts ==
    { ResponseOf([c \in CategorySet |-> o]) : o \in OptionIds } \cup
    { ResponseOf([c \in CategorySet |-> IF c = m THEN AbsentOption ELSE WellFormedOption]) :
        m \in CategorySet }

RemoteOutcomes == { RemoteError } \cup { RemoteText(t) : t \in NearResponseTexts }

(***************************************************************************)
(* audio.py: the endpointed recorder                                       *)
(***************************************************************************)
\* Samples are amplitudes in thousandths of full scale (float32 in [-1, 1]).
\* silence_threshold=0.01 of the AudioRecorder that main.py constructs
silence_threshold == 10

\* recent_audio**2 summed over the chunk
SumSquares(chunk) ==
    LET RECURSIVE Sum(_)
        Sum(k) == IF k > Len(chunk) THEN 0 ELSE chunk[k] * chunk[k] + Sum(k + 1)
    IN  Sum(1)

\* rms = np.sqrt(np.mean(recent_audio**2)); rms < self.silence_threshold,
\* computed without the square root: mean(x^2) < threshold^2
IsSilent(chunk) == SumSquares(chunk) < Len(chunk) * silence_threshold * silence_threshold

\* Chunks the device can deliver: a quiet one, whose RMS is below the
\* threshold although one sample is above it, and a loud one
QuietChunk == << 14, 0 >>

LoudChunk == << 500, -500 >>

ChunkSet == { QuietChunk, LoudChunk }

\* recording.append(indata.copy())
\* Faulty variant of AppendChunk: the chunk is put in front of the buffer
PrependChunk(rec, chunk) == << chunk >> \o rec

AppendChunk(rec, chunk) == Append(rec, chunk)

\* recording[-1]
LastChunk(rec) == rec[Len(rec)]

\* silence_start = None
NoneTime == -1

\* Faulty variant of MaxReached: the limit is tested for equality
MaxReachedExactly(elapsed, limit) == elapsed = limit

\* if elapsed >= self.max_duration: break
MaxReached(elapsed, limit) == elapsed >= limit

\* Faulty variant of StopBySilence: the run must be longer than the silence duration
StopBySilenceStrict(start, t, duration) == start # NoneTime /\ t - start > duration

\* rms < threshold, silence_start is not None, and
\* current_time - silence_start >= self.silence_duration: break
StopBySilence(start, t, duration) == start # NoneTime /\ t - start >= duration

\* Faulty variant of NextSilenceStart: a loud chunk does not clear the run
NextSilenceStartKept(start, t, silent) ==
    IF silent /\ start = NoneTime THEN t ELSE start

\* silence_start after the silence test of one poll
NextSilenceStart(start, t, silent) ==
    IF silent THEN (IF start = NoneTime THEN t ELSE start) ELSE NoneTime

\* Exceptions that can be raised inside record_audio
DeviceErrors == { "PortAudioError", "OSError" }

\* Faulty variant of Catches: only I/O errors are caught
CatchesOSErrorOnly(exc) == exc = "OSError"

\* "except Exception": every device error is an Exception, KeyboardInterrupt
\* is a BaseException and is not caught
Catches(exc) == exc \in DeviceErrors

\* Faulty variant of StreamAfterExit: the stream is closed only after a normal break
StreamAfterBreakOnly(how) == IF how = "break" THEN "closed" ELSE "open"

\* "with sd.InputStream(...)": leaving the block by break, by an exception or
\* by an interrupt closes the stream
StreamAfterExit(how) == "closed"

\* Bounds of the recorder model: durations are in polling intervals (100 ms)
MaxSilenceTicks == 2

MaxDurationTicks == 4

MaxSleepTicks == 2

MaxChunks == 3

(***************************************************************************)
(* code_evaluator.py                                                       *)
(***************************************************************************)
\* the literal text of the four score patterns, before "\s*(\d)"
CodePatternLabel(field) ==
    CASE field = "correctness" -> <<"C","o","r","r","e","c","t","n","e","s","s",":">>
      [] field = "code_quality" -> <<"C","o","d","e"," ","Q","u","a","l","i","t","y",":">>
      [] field = "efficiency" -> <<"E","f","f","i","c","i","e","n","c","y",":">>
      [] field = "overall_score" -> <<"O","v","e","r","a","l","l"," ","S","c","o","r","e",":">>

CodeFields == { "correctness", "code_quality", "efficiency", "overall_score" }

FeedbackLabel == <<"f","e","e","d","b","a","c","k",":">>

BlankLine == <<"\n","\n">>

\* the leftmost position at which sub occurs in s at or after from, 0 if none
FirstOccurrence(s, sub, from) ==
    LET hits == { i \in Occurrences(s, sub) : i >= from }
    IN  IF hits = {} THEN 0 ELSE CHOOSE h \in hits : \A g \in hits : h <= g

\* re.search(r"Feedback:\s*(.+?)(?:\n\n|\Z)", s, IGNORECASE | DOTALL):
\* group(1).strip(), the empty string when there is no match
FeedbackOf(s) ==
    LET i == FirstOccurrence(Lower(s), FeedbackLabel, 1)
    IN  IF i = 0 \/ i + Len(FeedbackLabel) > Len(s) THEN << >>
        ELSE LET j == SkipSpaces(s, i + Len(FeedbackLabel))
             IN  IF j > Len(s) THEN << >>
                 ELSE LET e == FirstOccurrence(s, BlankLine, j + 1)
                      IN  Strip(SubSeq(s, j, IF e = 0 THEN Len(s) ELSE e - 1))

\* the default of a score that the answer does not give
DefaultCodeScore == 3

\* result[field] after its re.search: int(group(1)) as parsed, not clamped
CodeScore(llm_response, field) ==
    LET d == SearchDigit(llm_response, CodePatternLabel(field))
    IN  IF d = NoMatch THEN DefaultCodeScore ELSE d

_parse_code_evaluation(llm_response) ==
    [ correctness |-> CodeScore(llm_response, "correctness"),
      code_quality |-> CodeScore(llm_response, "code_quality"),
      efficiency |-> CodeScore(llm_response, "efficiency"),
      overall_score |-> CodeScore(llm_response, "overall_score"),
      feedback |-> FeedbackOf(llm_response) ]

DefaultEvaluation(feedback) ==
    [ correctness |-> DefaultCodeScore, code_quality |-> DefaultCodeScore,
      efficiency |-> DefaultCodeScore, overall_score |-> DefaultCodeScore,
      feedback |-> feedback ]

FeedbackUnavailable == <<"L","L","M"," ","e","v","a","l","u","a","t","i","o","n"," ","u","n","a","v","a","i","l","a","b","l","e">>

FeedbackError == <<"E","r","r","o","r"," ","d","u","r","i","n","g"," ","e","v","a","l","u","a","t","i","o","n">>

\* evaluate_code: has_client is "self.client is not None", outcome what the
\* remote call did
evaluate_code(has_client, outcome) ==
    IF ~has_client THEN DefaultEvaluation(FeedbackUnavailable)
    ELSE IF outcome.kind = "text" THEN _parse_code_evaluation(Strip(outcome.text))
    ELSE DefaultEvaluation(FeedbackError)

\* main.py, ask_coding_question: the scores dictionary built from the evaluation
CodingScores(evaluation) ==
    ("Correctness" :> evaluation.correctness) @@
    ("Code Quality" :> evaluation.code_quality) @@
    ("Efficiency" :> evaluation.efficiency) @@
    ("Overall" :> evaluation.overall_score)

(***************************************************************************)
(* evaluator.py: sufficiency, aggregation and recommendation               *)
(***************************************************************************)
\* Faulty variant of is_answer_sufficient: four words are taken as enough.
is_answer_sufficient_four(transcription) ==
    IF transcription = << >> THEN FALSE
    ELSE IF Len(Split(transcription)) < 4 THEN FALSE
    ELSE TRUE

is_answer_sufficient(transcription) ==
    IF transcription = << >> THEN FALSE
    ELSE IF Len(Split(transcription)) < 5 THEN FALSE
    ELSE TRUE

\* scores.get(category, 0)
GetOrZero(scores, category) == IF category \in DOMAIN scores THEN scores[category] ELSE 0

RECURSIVE SumCategory(_, _, _)
SumCategory(all, category, k) ==
    IF k > Len(all) THEN 0 ELSE GetOrZero(all[k], category) + SumCategory(all, category, k + 1)

\* Faulty variant of RoundHundredths: the mean is cut off after two decimals.
TruncateHundredths(total, n) == (100 * total) \div n

\* round(total / n, 2), in hundredths; a tie goes to the even hundredth
RoundHundredths(total, n) ==
    LET whole == (100 * total) \div n
        rest == (100 * total) % n
    IN  IF 2 * rest < n THEN whole
        ELSE IF 2 * rest > n THEN whole + 1
        ELSE IF whole % 2 = 0 THEN whole ELSE whole + 1

\* the averages are kept in hundredths: 450 stands for 4.5
calculate_final_scores(all) ==
    IF all = << >> THEN [c \in CategorySet |-> 0]
    ELSE [c \in CategorySet |-> RoundHundredths(SumCategory(all, c, 1), Len(all))]

\* Python floats are IEEE-754 doubles. A double x that is 0, or at least 0.01
\* and below 32, is a whole number N of units of 2^-59. It is kept as the pair
\* of integers (h, r) with 25 * N = h * 2^57 + r, so x = h/100 + r/(25 * 2^59):
\* h hundredths, and a remainder r far too small to reach another hundredth.
Dbl(h, r) == [h |-> h, r |-> r]

\* x >= 2^(j-7)
AtLeastPower(x, j) == x.h * 128 > 100 * 2^j \/ (x.h * 128 = 100 * 2^j /\ x.r >= 0)

\* the j with 2^(j-7) <= x < 2^(j-6)
UlpExponent(x) == CHOOSE j \in 0..12 : AtLeastPower(x, j) /\ ~AtLeastPower(x, j + 1)

\* the spacing of the doubles around x, in units
Ulp(x) == 2^UlpExponent(x)

\* N is known modulo 2^12, which is enough for every spacing below 32
UnitModulus == 2^12

\* 1/25 modulo 2^12: N = r/25 modulo 2^12, since 2^57 is a multiple of 2^12
Inverse25 == CHOOSE i \in 1..(UnitModulus - 1) : (25 * i) % UnitModulus = 1

\* the double nearest to the exact sum x of doubles, a tie going to the even one
RoundToDouble(x) ==
    IF x.h = 0 /\ x.r = 0 THEN x
    ELSE LET u == Ulp(x)
             n == (Inverse25 * (x.r % UnitModulus)) % UnitModulus
             m == n % u
             down == IF 2 * m < u THEN TRUE
                     ELSE IF 2 * m > u THEN FALSE
                     ELSE ((n - m) \div u) % 2 = 0
         IN  Dbl(x.h, IF down THEN x.r - 25 * m ELSE x.r + 25 * (u - m))

RECURSIVE PowerOfTwoMod(_, _)
PowerOfTwoMod(e, m) == IF e = 0 THEN 1 % m ELSE (2 * PowerOfTwoMod(e - 1, m)) % m

\* 2^57 modulo 50 * 2^j, at index j + 1
TwoTo57Mod == SubSeq([k \in 1..13 |-> PowerOfTwoMod(57, 50 * 2^(k - 1))], 1, 13)

\* the double nearest to h/100: the float that round(x, 2) returns for h hundredths
NearestDouble(h) ==
    IF h = 0 THEN Dbl(0, 0)
    ELSE LET j == UlpExponent(Dbl(h, 0))
             u == 2^j
             q2 == (h * TwoTo57Mod[j + 1]) % (50 * u)
             q == q2 % (25 * u)
             down == IF 2 * q < 25 * u THEN TRUE
                     ELSE IF 2 * q > 25 * u THEN FALSE
                     ELSE ((q2 - q) \div (25 * u)) % 2 = 0
         IN  Dbl(h, IF down THEN -q ELSE 25 * u - q)

\* x + y in double arithmetic
DoubleAdd(x, y) == RoundToDouble(Dbl(x.h + y.h, x.r + y.r))

\* average_scores.values(): the floats, in the order the categories were inserted
Values(average) ==
    [k \in 1..Len(score_categories) |-> NearestDouble(average[score_categories[k]])]

\* sum(values) as a plain loop: one double addition per value (before Python 3.12)
RECURSIVE PlainSum(_, _)
PlainSum(values, k) ==
    IF k = 0 THEN Dbl(0, 0) ELSE DoubleAdd(PlainSum(values, k - 1), values[k])

\* the exact sum of the values
RECURSIVE ExactSum(_, _)
ExactSum(values, k) ==
    IF k = 0 THEN Dbl(0, 0)
    ELSE LET rest == ExactSum(values, k - 1)
         IN  Dbl(rest.h + values[k].h, rest.r + values[k].r)

\* sum(values) with the compensated loop of Python 3.12 and later: the rounding
\* errors are carried along, and the exact sum is rounded once
CompensatedSum(values, k) == RoundToDouble(ExactSum(values, k))

\* the two sum() the interpreter may bring
Summations == { "plain", "compensated" }

\* x >= t/100
AtLeastHundredths(x, t) == x.h > t \/ (x.h = t /\ x.r >= 0)

\* overall_average = sum(values) / len(values), compared with 4.5, 3.5 and 2.5;
\* the division by the 4 categories is exact in binary, so total / 4 >= 4.5
\* exactly when total >= 18
get_recommendation(average, summation) ==
    IF DOMAIN average = {} THEN "Reject"
    ELSE LET values == Values(average)
             n == Len(values)
             total == IF summation = "plain" THEN PlainSum(values, n)
                      ELSE CompensatedSum(values, n)
         IN  IF AtLeastHundredths(total, 450 * n) THEN "Strong Hire"
             ELSE IF AtLeastHundredths(total, 350 * n) THEN "Hire"
             ELSE IF AtLeastHundredths(total, 250 * n) THEN "Borderline"
             ELSE "Reject"

(***************************************************************************)
(* main.py: roles and question banks                                       *)
(***************************************************************************)
Roles == << "Software Engineer", "Data Analyst", "Cloud Engineer", "HR Screening", "Coding Test" >>

role_questions(role) ==
    CASE role = "Software Engineer" ->
           << <<"T","e","l","l"," ","m","e"," ","a","b","o","u","t"," ","a"," ","c","h","a","l","l","e","n","g","i","n","g"," ","t","e","c","h","n","i","c","a","l"," ","p","r","o","j","e","c","t"," ","y","o","u","'","v","e"," ","w","o","r","k","e","d"," ","o","n"," ","r","e","c","e","n","t","l","y",".">>,
              <<"H","o","w"," ","d","o"," ","y","o","u"," ","a","p","p","r","o","a","c","h"," ","d","e","b","u","g","g","i","n","g"," ","a"," ","c","o","m","p","l","e","x"," ","i","s","s","u","e"," ","i","n"," ","p","r","o","d","u","c","t","i","o","n","?">>,
              <<"E","x","p","l","a","i","n"," ","t","h","e"," ","d","i","f","f","e","r","e","n","c","e"," ","b","e","t","w","e","e","n"," ","s","y","n","c","h","r","o","n","o","u","s"," ","a","n","d"," ","a","s","y","n","c","h","r","o","n","o","u","s"," ","p","r","o","g","r","a","m","m","i","n","g",".">>,
              <<"W","h","a","t"," ","i","s"," ","y","o","u","r"," ","e","x","p","e","r","i","e","n","c","e"," ","w","i","t","h"," ","v","e","r","s","i","o","n"," ","c","o","n","t","r","o","l"," ","s","y","s","t","e","m","s"," ","l","i","k","e"," ","G","i","t","?">>,
              <<"H","o","w"," ","d","o"," ","y","o","u"," ","e","n","s","u","r","e"," ","c","o","d","e"," ","q","u","a","l","i","t","y"," ","a","n","d"," ","m","a","i","n","t","a","i","n","a","b","i","l","i","t","y"," ","i","n"," ","y","o","u","r"," ","p","r","o","j","e","c","t","s","?">> >>
      [] role = "Data Analyst" ->
           << <<"H","o","w"," ","d","o"," ","y","o","u"," ","a","p","p","r","o","a","c","h"," ","d","a","t","a"," ","c","l","e","a","n","i","n","g"," ","a","n","d"," ","p","r","e","p","r","o","c","e","s","s","i","n","g","?">>,
              <<"C","a","n"," ","y","o","u"," ","e","x","p","l","a","i","n"," ","t","h","e"," ","d","i","f","f","e","r","e","n","c","e"," ","b","e","t","w","e","e","n"," ","c","o","r","r","e","l","a","t","i","o","n"," ","a","n","d"," ","c","a","u","s","a","t","i","o","n","?">>,
              <<"W","h","a","t"," ","d","a","t","a"," ","v","i","s","u","a","l","i","z","a","t","i","o","n"," ","t","o","o","l","s"," ","h","a","v","e"," ","y","o","u"," ","u","s","e","d"," ","a","n","d"," ","w","h","i","c","h"," ","d","o"," ","y","o","u"," ","p","r","e","f","e","r","?">>,
              <<"D","e","s","c","r","i","b","e"," ","a"," ","t","i","m","e"," ","w","h","e","n"," ","y","o","u"," ","u","s","e","d"," ","d","a","t","a"," ","t","o"," ","s","o","l","v","e"," ","a"," ","b","u","s","i","n","e","s","s"," ","p","r","o","b","l","e","m",".">>,
              <<"H","o","w"," ","d","o"," ","y","o","u"," ","h","a","n","d","l","e"," ","m","i","s","s","i","n","g"," ","o","r"," ","i","n","c","o","m","p","l","e","t","e"," ","d","a","t","a"," ","i","n"," ","y","o","u","r"," ","a","n","a","l","y","s","i","s","?">> >>
      [] role = "Cloud Engineer" ->
           << <<"W","h","a","t"," ","i","s"," ","y","o","u","r"," ","e","x","p","e","r","i","e","n","c","e"," ","w","i","t","h"," ","c","l","o","u","d"," ","p","l","a","t","f","o","r","m","s"," ","l","i","k","e"," ","A","W","S",","," ","A","z","u","r","e",","," ","o","r"," ","G","C","P","?">>,
              <<"H","o","w"," ","d","o"," ","y","o","u"," ","e","n","s","u","r","e"," ","s","e","c","u","r","i","t","y"," ","a","n","d"," ","c","o","m","p","l","i","a","n","c","e"," ","i","n"," ","c","l","o","u","d"," ","d","e","p","l","o","y","m","e","n","t","s","?">>,
              <<"E","x","p","l","a","i","n"," ","t","h","e"," ","c","o","n","c","e","p","t"," ","o","f"," ","I","n","f","r","a","s","t","r","u","c","t","u","r","e"," ","a","s"," ","C","o","d","e"," ","a","n","d"," ","w","h","y"," ","i","t","'","s"," ","i","m","p","o","r","t","a","n","t",".">>,
              <<"H","o","w"," ","d","o"," ","y","o","u"," ","a","p","p","r","o","a","c","h"," ","d","e","s","i","g","n","i","n","g"," ","s","c","a","l","a","b","l","e"," ","a","n","d"," ","f","a","u","l","t","-","t","o","l","e","r","a","n","t"," ","s","y","s","t","e","m","s","?">>,
              <<"W","h","a","t"," ","m","o","n","i","t","o","r","i","n","g"," ","a","n","d"," ","l","o","g","g","i","n","g"," ","s","t","r","a","t","e","g","i","e","s"," ","d","o"," ","y","o","u"," ","u","s","e"," ","f","o","r"," ","c","l","o","u","d"," ","a","p","p","l","i","c","a","t","i","o","n","s","?">> >>
      [] role = "HR Screening" ->
           << <<"H","o","w"," ","d","o"," ","y","o","u"," ","h","a","n","d","l","e"," ","d","e","a","d","l","i","n","e","s"," ","o","r"," ","w","o","r","k"," ","p","r","e","s","s","u","r","e","?">>,
              <<"C","a","n"," ","y","o","u"," ","d","e","s","c","r","i","b","e"," ","a"," ","c","h","a","l","l","e","n","g","e"," ","y","o","u"," ","f","a","c","e","d"," ","a","t"," ","w","o","r","k"," ","a","n","d"," ","h","o","w"," ","y","o","u"," ","s","o","l","v","e","d"," ","i","t","?">>,
              <<"D","o"," ","y","o","u"," ","p","r","e","f","e","r"," ","w","o","r","k","i","n","g"," ","i","n","d","e","p","e","n","d","e","n","t","l","y"," ","o","r"," ","i","n"," ","a"," ","t","e","a","m","?"," ","W","h","y","?">>,
              <<"W","h","a","t"," ","m","o","t","i","v","a","t","e","s"," ","y","o","u"," ","i","n"," ","y","o","u","r"," ","p","r","o","f","e","s","s","i","o","n","a","l"," ","c","a","r","e","e","r","?">>,
              <<"T","e","l","l"," ","m","e"," ","a","b","o","u","t"," ","a"," ","t","i","m","e"," ","w","h","e","n"," ","y","o","u"," ","h","a","d"," ","t","o"," ","a","d","a","p","t"," ","t","o"," ","a"," ","s","i","g","n","i","f","i","c","a","n","t"," ","c","h","a","n","g","e"," ","a","t"," ","w","o","r","k",".">> >>
      [] role = "Coding Test" ->
           << <<"W","r","i","t","e"," ","a"," ","f","u","n","c","t","i","o","n"," ","t","o"," ","r","e","v","e","r","s","e"," ","a"," ","s","t","r","i","n","g"," ","w","i","t","h","o","u","t"," ","u","s","i","n","g"," ","b","u","i","l","t","-","i","n"," ","r","e","v","e","r","s","e"," ","m","e","t","h","o","d","s",".">>,
              <<"G","i","v","e","n"," ","a","n"," ","a","r","r","a","y"," ","o","f"," ","i","n","t","e","g","e","r","s",","," ","f","i","n","d"," ","t","w","o"," ","n","u","m","b","e","r","s"," ","t","h","a","t"," ","a","d","d"," ","u","p"," ","t","o"," ","a"," ","t","a","r","g","e","t"," ","s","u","m",".">>,
              <<"W","r","i","t","e"," ","a"," ","f","u","n","c","t","i","o","n"," ","t","o"," ","c","h","e","c","k"," ","i","f"," ","a"," ","s","t","r","i","n","g"," ","i","s"," ","a"," ","v","a","l","i","d"," ","p","a","l","i","n","d","r","o","m","e"," ","(","i","g","n","o","r","i","n","g"," ","s","p","a","c","e","s"," ","a","n","d"," ","c","a","s","e",")",".">> >>

\* random.sample(bank, 3) draws from the first MaxBank questions of the bank
MaxBank == 3

\* the number of questions of an interview: random.sample(..., 3)
NumQuestions == 3

\* the ordered selections of NumQuestions distinct questions
Samples(role) ==
    LET bank == role_questions(role)
        ids == 1..Min(MaxBank, Len(bank))
    IN  { [k \in 1..NumQuestions |-> bank[f[k]]] :
            f \in { g \in [1..NumQuestions -> ids] :
                      \A a, b \in 1..NumQuestions : a # b => g[a] # g[b] } }

\* what select_role stores in self.questions
QuestionsFor(role) ==
    IF role = "Coding Test" THEN { role_questions(role) } ELSE Samples(role)

(***************************************************************************)
(* State                                                                   *)
(***************************************************************************)
VARIABLES
    api_key,        \* ResponseEvaluator.api_key
    client,         \* ResponseEvaluator.client is not None
    question,       \* argument of evaluate_response
    transcription,  \* argument of evaluate_response
    remote,         \* what the remote call of this evaluation did
    eval_result,    \* what evaluate_response returned
    epc,            \* "ready" before the call, "done" after it
    llm_response,   \* argument of _parse_llm_scores
    parse_result,   \* what _parse_llm_scores returned
    ppc,            \* "ready" before the call, "done" after it
    silence_duration, \* AudioRecorder.silence_duration, in polling intervals
    max_duration,   \* AudioRecorder.max_duration, in polling intervals
    now,            \* time.time(), in polling intervals
    rpc,            \* position of the supervising loop in record_audio
    recording,      \* the list the callback appends to
    silence_start,  \* NoneTime or the time the silence run started
    start_time,     \* time.time() at the start of the call
    current_time,   \* time.time() read at the top of the loop
    recent_audio,   \* the chunk the last poll inspected
    stream,         \* "closed" or "open": the InputStream of the with block
    rec_result,     \* "pending", "true", "false", or "propagated"
    wav,            \* the samples written to output_file, << >> if none
    delivered,      \* history: the chunks the device delivered, in order
    polls,          \* history: what each poll saw, and when
    stop_reason,    \* history: why the loop was left
    prev_time,      \* history: current_time of the previous iteration
    groq_api_key,   \* os.getenv("GROQ_API_KEY", "")
    eval_client,    \* InterviewAgent.evaluator.client is not None
    code_client,    \* InterviewAgent.code_evaluator.client is not None
    selected_role,  \* InterviewAgent.selected_role, "" for None
    questions,      \* InterviewAgent.questions
    qnum,           \* the number of the question being processed, from 1
    ipc,            \* position of run(), conduct_interview and ask_question
    cur_transcription, \* the local "transcription" of ask_question
    all_scores,     \* InterviewAgent.all_scores
    interview_data, \* InterviewAgent.interview_data
    average_scores, \* the averages the summary printed, in hundredths
    recommendation, \* the recommendation the summary printed, "" if none
    followups,      \* history: follow-up captures started for this question
    first_transcription, \* history: what the first transcribe() of this question returned
    followup_result,     \* history: what became of the follow-up of this question
    failed_at       \* history: the number of the question that returned False, 0 if none

evalVars == << api_key, client, question, transcription, remote, eval_result, epc >>

parseVars == << llm_response, parse_result, ppc >>

recVars ==
    << silence_duration, max_duration, now, rpc, recording, silence_start, start_time,
       current_time, recent_audio, stream, rec_result, wav, delivered, polls, stop_reason,
       prev_time >>

intVars ==
    << groq_api_key, eval_client, code_client, selected_role, questions, qnum, ipc,
       cur_transcription, all_scores, interview_data, average_scores, recommendation,
       followups, first_transcription, followup_result, failed_at >>

vars == << evalVars, parseVars, recVars, intVars >>

IdleEval ==
    /\ api_key = ""
    /\ client = FALSE
    /\ question = << >>
    /\ transcription = << >>
    /\ remote = NoRemoteCall
    /\ eval_result = Returned(EmptyDict)
    /\ epc = "idle"

IdleParse ==
    /\ llm_response = << >>
    /\ parse_result = EmptyDict
    /\ ppc = "idle"

IdleRec ==
    /\ silence_duration = 0
    /\ max_duration = 0
    /\ now = 0
    /\ rpc = "idle"
    /\ recording = << >>
    /\ silence_start = NoneTime
    /\ start_time = 0
    /\ current_time = 0
    /\ recent_audio = << >>
    /\ stream = "closed"
    /\ rec_result = "pending"
    /\ wav = << >>
    /\ delivered = << >>
    /\ polls = << >>
    /\ stop_reason = "none"
    /\ prev_time = NoneTime

\* the follow-up of a question: not asked for, not recorded, or transcribed
NoFollowup == [stage |-> "none", ok |-> FALSE, text |-> << >>]

FollowupNotRecorded == [stage |-> "not_recorded", ok |-> FALSE, text |-> << >>]

FollowupTranscribed(r) == [stage |-> "transcribed", ok |-> r.ok, text |-> r.text]

IdleInt ==
    /\ groq_api_key = ""
    /\ eval_client = FALSE
    /\ code_client = FALSE
    /\ selected_role = ""
    /\ questions = << >>
    /\ qnum = 0
    /\ ipc = "idle"
    /\ cur_transcription = << >>
    /\ all_scores = << >>
    /\ interview_data = << >>
    /\ average_scores = EmptyDict
    /\ recommendation = ""
    /\ followups = 0
    /\ first_transcription = << >>
    /\ followup_result = NoFollowup
    /\ failed_at = 0

(***************************************************************************)
(* evaluate_response on every input                                        *)
(***************************************************************************)
InitEval ==
    /\ api_key \in ApiKeys
    /\ \E constructed \in BOOLEAN : client = MakeClient(api_key, constructed)
    /\ question \in Questions
    /\ transcription \in Transcripts
    /\ remote = NoRemoteCall
    /\ eval_result = Returned(EmptyDict)
    /\ epc = "ready"
    /\ IdleParse
    /\ IdleRec
    /\ IdleInt

evaluate_response ==
    /\ epc = "ready"
    /\ \E outcome \in IF client THEN RemoteOutcomes ELSE { NoRemoteCall } :
         /\ remote' = outcome
         /\ eval_result' = EvaluateResponse(client, question, transcription, outcome)
    /\ epc' = "done"
    /\ UNCHANGED << api_key, client, question, transcription >>
    /\ UNCHANGED << parseVars, recVars, intVars >>

NextEval == evaluate_response

SpecEval == InitEval /\ [][NextEval]_vars

(***************************************************************************)
(* evaluate_response, with the remote call as a request and its return     *)
(***************************************************************************)
\* if self.client: ... self.client.chat.completions.create(...) is entered; the
\* call is made with a model, the messages, a temperature and max_tokens, and
\* nothing that limits its duration
CallRemote ==
    /\ epc = "ready"
    /\ client
    /\ epc' = "waiting"
    /\ UNCHANGED << api_key, client, question, transcription, remote, eval_result >>
    /\ UNCHANGED << parseVars, recVars, intVars >>

\* else: return self._evaluate_fallback(question, transcription)
EvaluateLocally ==
    /\ epc = "ready"
    /\ ~client
    /\ remote' = NoRemoteCall
    /\ eval_result' = EvaluateResponse(client, question, transcription, NoRemoteCall)
    /\ epc' = "done"
    /\ UNCHANGED << api_key, client, question, transcription >>
    /\ UNCHANGED << parseVars, recVars, intVars >>

\* the remote scorer answers, or the call raises: the rest of _evaluate_with_llm
RemoteReturns ==
    /\ epc = "waiting"
    /\ \E outcome \in RemoteOutcomes :
         /\ remote' = outcome
         /\ eval_result' = EvaluateResponse(client, question, transcription, outcome)
    /\ epc' = "done"
    /\ UNCHANGED << api_key, client, question, transcription >>
    /\ UNCHANGED << parseVars, recVars, intVars >>

NextRemote == CallRemote \/ EvaluateLocally \/ RemoteReturns

\* evaluate_response leaves its first statement: by CallRemote or by
\* EvaluateLocally, the only steps of NextRemote that change epc from "ready"
StartsEvaluating == epc = "ready" /\ epc' \in { "waiting", "done" }

\* The interpreter keeps running the statements of evaluate_response. Whether
\* and when the remote scorer answers is not in the program's hands: the
\* source gives the call no deadline, so RemoteReturns carries no fairness.
SpecRemote == InitEval /\ [][NextRemote]_vars /\ WF_epc(StartsEvaluating)

(***************************************************************************)
(* _parse_llm_scores on every answer                                       *)
(***************************************************************************)
InitParse ==
    /\ llm_response \in ResponseTexts
    /\ parse_result = EmptyDict
    /\ ppc = "ready"
    /\ IdleEval
    /\ IdleRec
    /\ IdleInt

ParseScores ==
    /\ ppc = "ready"
    /\ parse_result' = _parse_llm_scores(llm_response)
    /\ ppc' = "done"
    /\ UNCHANGED llm_response
    /\ UNCHANGED << evalVars, recVars, intVars >>

NextParse == ParseScores

SpecParse == InitParse /\ [][NextParse]_vars

(***************************************************************************)
(* record_audio: the supervising loop, the callback, and the ways out      *)
(***************************************************************************)
InitRec ==
    /\ silence_duration \in 1..MaxSilenceTicks
    /\ max_duration \in 1..MaxDurationTicks
    /\ now = 0
    /\ rpc = "call"
    /\ recording = << >>
    /\ silence_start = NoneTime
    /\ start_time = 0
    /\ current_time = 0
    /\ recent_audio = << >>
    /\ stream = "closed"
    /\ rec_result = "pending"
    /\ wav = << >>
    /\ delivered = << >>
    /\ polls = << >>
    /\ stop_reason = "none"
    /\ prev_time = NoneTime
    /\ IdleEval
    /\ IdleParse
    /\ IdleInt

InsideWith == rpc \in { "top", "len", "tail", "sleep" }

\* np.int16(x * 32767): scaling, then truncation toward zero
ToInt16(sample) ==
    IF sample >= 0 THEN (sample * 32767) \div 1000 ELSE -((-sample * 32767) \div 1000)

\* Faulty variant of ToPcm: only the chunk inspected last is written.
ToPcmLastChunk(rec) ==
    [k \in 1..Len(LastChunk(rec)) |-> ToInt16(LastChunk(rec)[k])]

\* np.int16(np.concatenate(recording, axis=0) * 32767)
ToPcm(rec) == LET flat == ConcatAll(rec) IN [k \in 1..Len(flat) |-> ToInt16(flat[k])]

\* recording = [], silence_start = None, start_time = time.time()
EnterRecord ==
    /\ rpc = "call"
    /\ recording' = << >>
    /\ silence_start' = NoneTime
    /\ start_time' = now
    /\ rpc' = "open"
    /\ UNCHANGED << silence_duration, max_duration, now, current_time, recent_audio,
                    stream, rec_result, wav, delivered, polls, stop_reason, prev_time >>
    /\ UNCHANGED << evalVars, parseVars, intVars >>

\* sd.InputStream(...).__enter__() succeeds
OpenStream ==
    /\ rpc = "open"
    /\ stream' = "open"
    /\ rpc' = "top"
    /\ UNCHANGED << silence_duration, max_duration, now, recording, silence_start,
                    start_time, current_time, recent_audio, rec_result, wav, delivered,
                    polls, stop_reason, prev_time >>
    /\ UNCHANGED << evalVars, parseVars, intVars >>

\* the audio thread calls callback(indata, ...) while the stream is open
Callback ==
    /\ stream = "open"
    /\ Len(delivered) < MaxChunks
    /\ \E chunk \in ChunkSet :
         /\ recording' = AppendChunk(recording, chunk)
         /\ delivered' = Append(delivered, chunk)
    /\ UNCHANGED << silence_duration, max_duration, now, rpc, silence_start, start_time,
                    current_time, recent_audio, stream, rec_result, wav, polls,
                    stop_reason, prev_time >>
    /\ UNCHANGED << evalVars, parseVars, intVars >>

\* current_time = time.time(); if elapsed >= self.max_duration: break
LoopTop ==
    /\ rpc = "top"
    /\ current_time' = now
    /\ prev_time' = IF polls = << >> THEN NoneTime ELSE current_time
    /\ IF MaxReached(now - start_time, max_duration)
       THEN rpc' = "exit" /\ stop_reason' = "max"
       ELSE rpc' = "len" /\ UNCHANGED stop_reason
    /\ UNCHANGED << silence_duration, max_duration, now, recording, silence_start,
                    start_time, recent_audio, stream, rec_result, wav, delivered, polls >>
    /\ UNCHANGED << evalVars, parseVars, intVars >>

\* if len(recording) > 0:
CheckLen ==
    /\ rpc = "len"
    /\ IF Len(recording) > 0
       THEN rpc' = "tail" /\ UNCHANGED polls
       ELSE /\ rpc' = "sleep"
            /\ polls' = Append(polls, [t |-> current_time, saw |-> "none", len |-> 0])
    /\ UNCHANGED << silence_duration, max_duration, now, recording, silence_start,
                    start_time, current_time, recent_audio, stream, rec_result, wav,
                    delivered, stop_reason, prev_time >>
    /\ UNCHANGED << evalVars, parseVars, intVars >>

\* recent_audio = recording[-1], the silence test on it, and the sleep or break
ReadTail ==
    /\ rpc = "tail"
    /\ recent_audio' = LastChunk(recording)
    /\ polls' = Append(polls, [t |-> current_time,
                               saw |-> IF IsSilent(LastChunk(recording)) THEN "quiet" ELSE "loud",
                               len |-> Len(delivered)])
    /\ silence_start' = NextSilenceStart(silence_start, current_time,
                                         IsSilent(LastChunk(recording)))
    /\ IF IsSilent(LastChunk(recording))
            /\ StopBySilence(silence_start, current_time, silence_duration)
       THEN rpc' = "exit" /\ stop_reason' = "silence"
       ELSE rpc' = "sleep" /\ UNCHANGED stop_reason
    /\ UNCHANGED << silence_duration, max_duration, now, recording, start_time,
                    current_time, stream, rec_result, wav, delivered, prev_time >>
    /\ UNCHANGED << evalVars, parseVars, intVars >>

\* time.sleep(0.1): at least one polling interval passes
Sleep ==
    /\ rpc = "sleep"
    /\ \E d \in 1..MaxSleepTicks : now' = now + d
    /\ rpc' = "top"
    /\ UNCHANGED << silence_duration, max_duration, recording, silence_start, start_time,
                    current_time, recent_audio, stream, rec_result, wav, delivered, polls,
                    stop_reason, prev_time >>
    /\ UNCHANGED << evalVars, parseVars, intVars >>

\* break leaves the with block: InputStream.__exit__ closes the stream
ExitWith ==
    /\ rpc = "exit"
    /\ stream' = StreamAfterExit("break")
    /\ rpc' = "after"
    /\ UNCHANGED << silence_duration, max_duration, now, recording, silence_start,
                    start_time, current_time, recent_audio, rec_result, wav, delivered,
                    polls, stop_reason, prev_time >>
    /\ UNCHANGED << evalVars, parseVars, intVars >>

\* if not recording: return False; else convert, write the file, return True
Finish ==
    /\ rpc = "after"
    /\ IF recording = << >>
       THEN rec_result' = "false" /\ UNCHANGED wav
       ELSE rec_result' = "true" /\ wav' = ToPcm(recording)
    /\ rpc' = "done"
    /\ UNCHANGED << silence_duration, max_duration, now, recording, silence_start,
                    start_time, current_time, recent_audio, stream, delivered, polls,
                    stop_reason, prev_time >>
    /\ UNCHANGED << evalVars, parseVars, intVars >>

\* an exception exc leaves record_audio from position rpc: the with block, if
\* it is being left, closes the stream; "except Exception" returns False for
\* what it catches, anything else propagates to the caller
Leave(exc, reason) ==
    /\ stream' = IF InsideWith \/ rpc = "exit" THEN StreamAfterExit(reason) ELSE stream
    /\ rec_result' = IF Catches(exc) THEN "false" ELSE "propagated"
    /\ stop_reason' = reason
    /\ rpc' = "done"
    /\ UNCHANGED << silence_duration, max_duration, now, recording, silence_start,
                    start_time, current_time, recent_audio, wav, delivered, polls,
                    prev_time >>
    /\ UNCHANGED << evalVars, parseVars, intVars >>

\* the device fails: opening the stream, during the loop, or closing it
DeviceError ==
    /\ rpc = "open" \/ InsideWith \/ rpc = "exit"
    /\ Leave("PortAudioError", "exception")

\* np.concatenate / write of the file fails
PersistError ==
    /\ rpc = "after"
    /\ recording # << >>
    /\ Leave("OSError", "exception")

\* the operator aborts (KeyboardInterrupt) while record_audio runs
Interrupt ==
    /\ rpc \in { "call", "open", "top", "len", "tail", "sleep", "exit", "after" }
    /\ Leave("KeyboardInterrupt", "interrupt")

NextRec ==
    \/ EnterRecord
    \/ OpenStream
    \/ Callback
    \/ LoopTop
    \/ CheckLen
    \/ ReadTail
    \/ Sleep
    \/ ExitWith
    \/ Finish
    \/ DeviceError
    \/ PersistError
    \/ Interrupt

SpecRec == InitRec /\ [][NextRec]_vars

\* The thread that runs record_audio keeps running: its next statement is
\* eventually executed. Nothing is assumed of the audio thread.
Supervisor ==
    EnterRecord \/ OpenStream \/ LoopTop \/ CheckLen \/ ReadTail \/ Sleep \/ ExitWith \/ Finish

SpecRecFair == SpecRec /\ WF_vars(Supervisor)

(***************************************************************************)
(* main.py: one run of the interview agent                                 *)
(***************************************************************************)
\* what transcribe() can return for the first answer: None, or stripped text
TranscribeNone == [ok |-> FALSE, text |-> << >>]

Transcribed(text) == [ok |-> TRUE, text |-> text]

AnswerEmpty == << >>

AnswerShort == <<"T","h","e"," ","A","P","I"," ","s","y","s","t","e","m"," ","w","o","r","k","s">>

AnswerLong == <<"I"," ","k","n","o","w"," ","t","h","e"," ","A","P","I"," ","s","y","s","t","e","m">>

FollowupText == <<"m","a","y","b","e"," ","p","e","r","h","a","p","s"," ","u","m">>

AnswerResults == { TranscribeNone, Transcribed(AnswerEmpty), Transcribed(AnswerShort),
                   Transcribed(AnswerLong) }

FollowupResults == { TranscribeNone, Transcribed(AnswerEmpty), Transcribed(FollowupText) }

\* what the remote scorer answers in an interview: all four lines, with
\* digits inside and outside 1..5 (its failures are explored in SpecEval)
ScorerAnswer == <<"R","e","l","e","v","a","n","c","e",":"," ","9","\n","C","l","a","r","i","t","y",":"," ","0","\n","C","o","n","f","i","d","e","n","c","e",":"," ","4","\n","T","e","c","h","n","i","c","a","l"," ","A","c","c","u","r","a","c","y",":"," ","5">>

InterviewRemoteOutcomes == { RemoteText(ScorerAnswer) }

CodeAnswerFull == <<"C","o","r","r","e","c","t","n","e","s","s",":"," ","4","\n","C","o","d","e"," ","Q","u","a","l","i","t","y",":"," ","9","\n","E","f","f","i","c","i","e","n","c","y",":"," ","0","\n","O","v","e","r","a","l","l"," ","S","c","o","r","e",":"," ","4","\n","F","e","e","d","b","a","c","k",":"," ","o","k">>

CodeAnswerPartial == <<"C","o","r","r","e","c","t","n","e","s","s",":"," ","5">>

CodeRemoteOutcomes == { RemoteError, RemoteText(CodeAnswerFull), RemoteText(CodeAnswerPartial) }

\* the text of the solution file when the candidate has finished
CodeTemplate == <<"#"," ","W","r","i","t","e"," ","y","o","u","r"," ","c","o","d","e"," ","b","e","l","o","w",":","\n","\n">>

RoleSet == { Roles[k] : k \in 1..Len(Roles) }

KeyConfigured(key) == key # "" /\ key # PlaceholderKey

InitInterview ==
    /\ groq_api_key \in ApiKeys
    /\ \E constructed \in BOOLEAN : eval_client = MakeClient(groq_api_key, constructed)
    /\ \E constructed \in BOOLEAN : code_client = MakeClient(groq_api_key, constructed)
    /\ selected_role = ""
    /\ questions = << >>
    /\ qnum = 0
    /\ ipc = "select"
    /\ cur_transcription = << >>
    /\ all_scores = << >>
    /\ interview_data = << >>
    /\ average_scores = EmptyDict
    /\ recommendation = ""
    /\ followups = 0
    /\ first_transcription = << >>
    /\ followup_result = NoFollowup
    /\ failed_at = 0
    /\ IdleEval
    /\ IdleParse
    /\ IdleRec

\* select_role: a valid choice sets the role and the questions
SelectRole ==
    /\ ipc = "select"
    /\ \E role \in RoleSet :
         /\ selected_role' = role
         /\ questions' \in QuestionsFor(role)
    /\ ipc' = "setup"
    /\ UNCHANGED << groq_api_key, eval_client, code_client, qnum, cur_transcription,
                    all_scores, interview_data, average_scores, recommendation, followups,
                    first_transcription, followup_result, failed_at >>
    /\ UNCHANGED << evalVars, parseVars, recVars >>

\* select_role returns False (input interrupted): run() exits
SelectCancelled ==
    /\ ipc = "select"
    /\ ipc' = "exited"
    /\ UNCHANGED << groq_api_key, eval_client, code_client, selected_role, questions, qnum,
                    cur_transcription, all_scores, interview_data, average_scores,
                    recommendation, followups, first_transcription, followup_result, failed_at >>
    /\ UNCHANGED << evalVars, parseVars, recVars >>

\* setup: the microphone test, then transcriber.load_model()
Setup ==
    /\ ipc = "setup"
    /\ \E microphone, constructed \in BOOLEAN :
         IF microphone /\ KeyConfigured(groq_api_key) /\ constructed
         THEN ipc' = "conduct" /\ qnum' = 1
         ELSE ipc' = "exited" /\ UNCHANGED qnum
    /\ UNCHANGED << groq_api_key, eval_client, code_client, selected_role, questions,
                    cur_transcription, all_scores, interview_data, average_scores,
                    recommendation, followups, first_transcription, followup_result, failed_at >>
    /\ UNCHANGED << evalVars, parseVars, recVars >>

\* what conduct_interview does with the value ask_question returned: the loop
\* goes on, or "return False" and run() exits
ConductAfterIgnoring(ok) == "conduct"

ConductAfter(ok) == IF ok THEN "conduct" ELSE "exited"

\* self.interview_data.append(record) / self.all_scores.append(scores)
LogRecordFront(log, record) == << record >> \o log

LogRecord(log, record) == Append(log, record)

\* conduct_interview: the next iteration of the loop over self.questions
NextQuestion ==
    /\ ipc = "conduct"
    /\ qnum <= Len(questions)
    /\ ipc' = IF selected_role = "Coding Test" THEN "coding" ELSE "record"
    /\ followups' = 0
    /\ UNCHANGED << groq_api_key, eval_client, code_client, selected_role, questions, qnum,
                    cur_transcription, all_scores, interview_data, average_scores,
                    recommendation, first_transcription, followup_result, failed_at >>
    /\ UNCHANGED << evalVars, parseVars, recVars >>

\* ask_question: record_audio(audio_file) returns True or False
AnswerRecord ==
    /\ ipc = "record"
    /\ \E recorded \in BOOLEAN :
         IF recorded
         THEN ipc' = "transcribe" /\ UNCHANGED failed_at
         ELSE ipc' = ConductAfter(FALSE) /\ failed_at' = qnum
    /\ UNCHANGED << groq_api_key, eval_client, code_client, selected_role, questions, qnum,
                    cur_transcription, all_scores, interview_data, average_scores,
                    recommendation, followups, first_transcription, followup_result >>
    /\ UNCHANGED << evalVars, parseVars, recVars >>

\* ask_question: transcribe(audio_file); None ends the interview
AnswerTranscribe ==
    /\ ipc = "transcribe"
    /\ \E r \in AnswerResults :
         IF r.ok
         THEN /\ cur_transcription' = r.text
              /\ first_transcription' = r.text
              /\ ipc' = "sufficiency"
              /\ UNCHANGED failed_at
         ELSE /\ UNCHANGED << cur_transcription, first_transcription >>
              /\ ipc' = ConductAfter(FALSE)
              /\ failed_at' = qnum
    /\ UNCHANGED << groq_api_key, eval_client, code_client, selected_role, questions, qnum,
                    all_scores, interview_data, average_scores, recommendation, followups,
                    followup_result >>
    /\ UNCHANGED << evalVars, parseVars, recVars >>

\* ask_question: if not is_answer_sufficient(transcription)
CheckSufficiency ==
    /\ ipc = "sufficiency"
    /\ ipc' = IF is_answer_sufficient(cur_transcription) THEN "evaluate" ELSE "fu_record"
    /\ UNCHANGED << groq_api_key, eval_client, code_client, selected_role, questions, qnum,
                    cur_transcription, all_scores, interview_data, average_scores,
                    recommendation, followups, first_transcription, followup_result, failed_at >>
    /\ UNCHANGED << evalVars, parseVars, recVars >>

\* ask_question: record_audio(audio_file_followup)
FollowupRecord ==
    /\ ipc = "fu_record"
    /\ followups' = followups + 1
    /\ \E recorded \in BOOLEAN :
         IF recorded
         THEN ipc' = "fu_transcribe" /\ UNCHANGED followup_result
         ELSE ipc' = "evaluate" /\ followup_result' = FollowupNotRecorded
    /\ UNCHANGED << groq_api_key, eval_client, code_client, selected_role, questions, qnum,
                    cur_transcription, all_scores, interview_data, average_scores,
                    recommendation, first_transcription, failed_at >>
    /\ UNCHANGED << evalVars, parseVars, recVars >>

\* Faulty variant of ExtendedTranscription: joins whatever was transcribed.
ExtendedTranscriptionAlways(original, r) ==
    IF r.ok THEN original \o << " " >> \o r.text ELSE original

\* if followup_transcription: transcription = transcription + " " + followup_transcription
ExtendedTranscription(original, r) ==
    IF r.ok /\ r.text # << >>
    THEN original \o << " " >> \o r.text
    ELSE original

\* ask_question: the follow-up is transcribed and, if not empty, appended
FollowupTranscribe ==
    /\ ipc = "fu_transcribe"
    /\ \E r \in FollowupResults :
         /\ cur_transcription' = ExtendedTranscription(cur_transcription, r)
         /\ followup_result' = FollowupTranscribed(r)
    /\ ipc' = "evaluate"
    /\ UNCHANGED << groq_api_key, eval_client, code_client, selected_role, questions, qnum,
                    all_scores, interview_data, average_scores, recommendation, followups,
                    first_transcription, failed_at >>
    /\ UNCHANGED << evalVars, parseVars, recVars >>

\* ask_question: evaluate_response, then the two appends, then return True
EvaluateAnswer ==
    /\ ipc = "evaluate"
    /\ \E outcome \in IF eval_client THEN InterviewRemoteOutcomes ELSE { NoRemoteCall } :
         LET scores == EvaluateResponse(eval_client, questions[qnum], cur_transcription,
                                        outcome).value
         IN  /\ all_scores' = LogRecord(all_scores, scores)
             /\ interview_data' = LogRecord(interview_data,
                    [question |-> questions[qnum], transcription |-> cur_transcription,
                     scores |-> scores])
    /\ qnum' = qnum + 1
    /\ ipc' = ConductAfter(TRUE)
    /\ first_transcription' = << >>
    /\ followup_result' = NoFollowup
    /\ UNCHANGED << groq_api_key, eval_client, code_client, selected_role, questions,
                    cur_transcription, average_scores, recommendation, followups, failed_at >>
    /\ UNCHANGED << evalVars, parseVars, recVars >>

\* ask_coding_question: the solution file is missing, or it is read,
\* evaluated and logged
AskCodingQuestion ==
    /\ ipc = "coding"
    /\ \E file_exists \in BOOLEAN :
         IF ~file_exists
         THEN /\ ipc' = ConductAfter(FALSE)
              /\ failed_at' = qnum
              /\ UNCHANGED << qnum, all_scores, interview_data >>
         ELSE /\ \E outcome \in IF code_client THEN CodeRemoteOutcomes ELSE { NoRemoteCall } :
                   LET evaluation == evaluate_code(code_client, outcome)
                       scores == CodingScores(evaluation)
                   IN  /\ all_scores' = LogRecord(all_scores, scores)
                       /\ interview_data' = LogRecord(interview_data,
                              [question |-> questions[qnum], code |-> CodeTemplate,
                               scores |-> scores, feedback |-> evaluation.feedback])
              /\ qnum' = qnum + 1
              /\ ipc' = ConductAfter(TRUE)
              /\ UNCHANGED failed_at
    /\ UNCHANGED << groq_api_key, eval_client, code_client, selected_role, questions,
                    cur_transcription, average_scores, recommendation, followups,
                    first_transcription, followup_result >>
    /\ UNCHANGED << evalVars, parseVars, recVars >>

\* conduct_interview returned True: print_final_summary
PrintFinalSummary ==
    /\ ipc = "conduct"
    /\ qnum > Len(questions)
    /\ average_scores' = calculate_final_scores(all_scores)
    /\ \E summation \in Summations :
         recommendation' = get_recommendation(calculate_final_scores(all_scores), summation)
    /\ ipc' = "complete"
    /\ UNCHANGED << groq_api_key, eval_client, code_client, selected_role, questions, qnum,
                    cur_transcription, all_scores, interview_data, followups,
                    first_transcription, followup_result, failed_at >>
    /\ UNCHANGED << evalVars, parseVars, recVars >>

Next ==
    \/ SelectRole
    \/ SelectCancelled
    \/ Setup
    \/ NextQuestion
    \/ AnswerRecord
    \/ AnswerTranscribe
    \/ CheckSufficiency
    \/ FollowupRecord
    \/ FollowupTranscribe
    \/ EvaluateAnswer
    \/ AskCodingQuestion
    \/ PrintFinalSummary

Spec == InitInterview /\ [][Next]_vars

(***************************************************************************)
(* calculate_final_scores on lists of ScoreSets                            *)
(***************************************************************************)
MaxSets == 4

UniformScores(v) == [c \in CategorySet |-> v]

MixedScores ==
    ("Relevance" :> 1) @@ ("Clarity" :> 2) @@ ("Confidence" :> 4) @@ ("Technical Accuracy" :> 5)

UnevenScores ==
    ("Relevance" :> 3) @@ ("Clarity" :> 4) @@ ("Confidence" :> 4) @@ ("Technical Accuracy" :> 2)

\* the ScoreSets the lists are made of
ScorePalette == { UniformScores(1), UniformScores(5), MixedScores, UnevenScores }

\* all_scores: every list of at most MaxSets ScoreSets of the palette
ScoreLists == UNION { [1..n -> ScorePalette] : n \in 0..MaxSets }

InitAggregate ==
    /\ all_scores \in ScoreLists
    /\ ipc = "aggregate"
    /\ groq_api_key = ""
    /\ eval_client = FALSE
    /\ code_client = FALSE
    /\ selected_role = ""
    /\ questions = << >>
    /\ qnum = 0
    /\ cur_transcription = << >>
    /\ interview_data = << >>
    /\ average_scores = EmptyDict
    /\ recommendation = ""
    /\ followups = 0
    /\ first_transcription = << >>
    /\ followup_result = NoFollowup
    /\ failed_at = 0
    /\ IdleEval
    /\ IdleParse
    /\ IdleRec

\* average_scores = self.evaluator.calculate_final_scores(self.all_scores)
Aggregate ==
    /\ ipc = "aggregate"
    /\ average_scores' = calculate_final_scores(all_scores)
    /\ ipc' = "aggregated"
    /\ UNCHANGED << groq_api_key, eval_client, code_client, selected_role, questions, qnum,
                    cur_transcription, all_scores, interview_data, recommendation, followups,
                    first_transcription, followup_result, failed_at >>
    /\ UNCHANGED << evalVars, parseVars, recVars >>

NextAggregate == Aggregate

SpecAggregate == InitAggregate /\ [][NextAggregate]_vars

(***************************************************************************)
(* get_recommendation on AverageScoreSets                                  *)
(***************************************************************************)
\* the averages, in hundredths, the AverageScoreSets are made of
AveragePalette == { 100, 160, 249, 250, 280, 350, 450, 460, 500 }

AverageSets == { EmptyDict } \cup [CategorySet -> AveragePalette]

InitRecommend ==
    /\ average_scores \in AverageSets
    /\ ipc = "recommend"
    /\ groq_api_key = ""
    /\ eval_client = FALSE
    /\ code_client = FALSE
    /\ selected_role = ""
    /\ questions = << >>
    /\ qnum = 0
    /\ cur_transcription = << >>
    /\ all_scores = << >>
    /\ interview_data = << >>
    /\ recommendation = ""
    /\ followups = 0
    /\ first_transcription = << >>
    /\ followup_result = NoFollowup
    /\ failed_at = 0
    /\ IdleEval
    /\ IdleParse
    /\ IdleRec

\* recommendation = self.evaluator.get_recommendation(average_scores)
Recommend ==
    /\ ipc = "recommend"
    /\ \E summation \in Summations :
         recommendation' = get_recommendation(average_scores, summation)
    /\ ipc' = "recommended"
    /\ UNCHANGED << groq_api_key, eval_client, code_client, selected_role, questions, qnum,
                    cur_transcription, all_scores, interview_data, average_scores, followups,
                    first_transcription, followup_result, failed_at >>
    /\ UNCHANGED << evalVars, parseVars, recVars >>

NextRecommend == Recommend

SpecRecommend == InitRecommend /\ [][NextRecommend]_vars

(***************************************************************************)
(* Properties of the evaluation engine                                     *)
(***************************************************************************)
IsScoreSet(d) == DOMAIN d = CategorySet /\ \A c \in CategorySet : d[c] \in 1..5

\* C2: whatever the question, the transcript, the credential and the outcome
\* of the remote call, evaluate_response returns (it does not raise) a ScoreSet
\* with exactly the four categories, each an integer from 1 to 5; the remote
\* and the heuristic strategy yield the same key set.
C2_EvaluateReturnsScoreSet ==
    epc = "done" => ~eval_result.raised /\ IsScoreSet(eval_result.value)

\* the remote strategy answered and its scores, one of them clamped, were returned
C2_Witness ==
    /\ epc = "done"
    /\ remote.kind = "text"
    /\ eval_result.value # _evaluate_fallback(question, transcription)
    /\ \E c \in CategorySet : SearchDigit(remote.text, PatternLabel(c)) > 5

\* the remote call raised, or its text lacks a labelled digit for a category
RemoteFailed ==
    \/ remote.kind = "error"
    \/ /\ remote.kind = "text"
       /\ \E c \in CategorySet : SearchDigit(Strip(remote.text), PatternLabel(c)) = NoMatch

\* C3: when the remote strategy fails (the call raises, or the text cannot be
\* parsed into all four categories), evaluate_response does not raise and
\* returns exactly the ScoreSet of the heuristic strategy for the same input.
C3_RemoteFailureFallsBack ==
    (epc = "done" /\ client /\ RemoteFailed) =>
        /\ ~eval_result.raised
        /\ eval_result.value = _evaluate_fallback(question, transcription)
        /\ DOMAIN eval_result.value = CategorySet

\* an answer with three of the four lines was replaced by the heuristic scores
C3_Witness ==
    /\ epc = "done"
    /\ remote.kind = "text"
    /\ Cardinality({ c \in CategorySet :
                       SearchDigit(remote.text, PatternLabel(c)) # NoMatch }) = 3
    /\ eval_result.value = _evaluate_fallback(question, transcription)

\* the heuristic strategy produced the result: no client, or the remote failed
HeuristicsUsed == epc = "done" /\ (~client \/ RemoteFailed)

\* nothing but whitespace, or nothing at all
OnlyWhitespace(text) == \A k \in 1..Len(text) : IsSpace(text[k])

\* C13: each of the four heuristic scorers gives 1 to an empty or
\* whitespace-only transcript and 2 to a transcript of one to four
\* whitespace-delimited words, whatever the question and whatever overlap,
\* fillers, phrases or technical terms the words hold.
C13_ShortTranscriptRules ==
    HeuristicsUsed =>
        /\ OnlyWhitespace(transcription) =>
              \A c \in CategorySet : eval_result.value[c] = 1
        /\ (~OnlyWhitespace(transcription) /\ Len(Split(transcription)) < 5) =>
              \A c \in CategorySet : eval_result.value[c] = 2

\* the number of technical terms in a transcript, overlapping terms included
TechnicalCount(text) == SumCounts(Lower(text), technical_indicators)

\* C17: a transcript of five or more whitespace-delimited words that holds
\* five or more instances of technical terms gets Technical Accuracy 5 from
\* the heuristic scorer.
C17_ManyTermsInFiveWords ==
    (HeuristicsUsed /\ TechnicalCount(transcription) >= 5
                    /\ Len(Split(transcription)) >= 5) =>
        eval_result.value["Technical Accuracy"] = 5

\* "the API system " three times: six terms in nine words, scored 5
C17_Witness ==
    /\ HeuristicsUsed
    /\ transcription = PieceTech \o PieceTech \o PieceTech
    /\ TechnicalCount(transcription) = 6
    /\ eval_result.value["Technical Accuracy"] = 5

\* C17 as stated: five or more instances of technical terms give 5, however
\* few words hold them.
C17_ManyTermsAlwaysFive ==
    (HeuristicsUsed /\ TechnicalCount(transcription) >= 5) =>
        eval_result.value["Technical Accuracy"] = 5

\* three words, two of them technical terms of the question, scored 2 everywhere
C13_Witness ==
    /\ HeuristicsUsed
    /\ Len(Split(transcription)) \in 1..4
    /\ SumCounts(Lower(transcription), technical_indicators) >= 2
    /\ \E k \in 1..Len(Split(Lower(transcription))) :
           Split(Lower(transcription))[k] \in { w \in { Split(Lower(question))[j] :
                                                    j \in 1..Len(Split(Lower(question))) } :
                                                w \notin common_words }
    /\ \A c \in CategorySet : eval_result.value[c] = 2

LabelledDigit(text, c) == SearchDigit(text, PatternLabel(c))

\* C4: _parse_llm_scores is all-or-nothing: it returns the four categories,
\* each the first labelled digit clamped to 1..5 (0 becomes 1, 6 to 9 become
\* 5), when every category has a labelled digit, and the empty result when
\* any category has none; it never returns some of the categories.
C4_ParseAllOrNothing ==
    ppc = "done" =>
        IF \A c \in CategorySet : LabelledDigit(llm_response, c) # NoMatch
        THEN /\ DOMAIN parse_result = CategorySet
             /\ \A c \in CategorySet :
                  LET d == LabelledDigit(llm_response, c)
                  IN  parse_result[c] = IF d = 0 THEN 1 ELSE IF d >= 6 THEN 5 ELSE d
        ELSE DOMAIN parse_result = {}

\* three categories were found, one was not, and nothing was returned
C4_Witness ==
    /\ ppc = "done"
    /\ Cardinality({ c \in CategorySet : LabelledDigit(llm_response, c) # NoMatch }) = 3
    /\ DOMAIN parse_result = {}

(***************************************************************************)
(* Properties of the recorder                                              *)
(***************************************************************************)
LastPoll == polls[Len(polls)]

\* the first poll of the unbroken series of quiet polls that ends the history
QuietRunFirst ==
    CHOOSE k \in 1..Len(polls) :
        /\ \A j \in k..Len(polls) : polls[j].saw = "quiet"
        /\ k > 1 => polls[k - 1].saw # "quiet"

\* when the current silence run started, by the history of polls alone
QuietRunStart ==
    IF polls = << >> \/ LastPoll.saw # "quiet" THEN NoneTime ELSE polls[QuietRunFirst].t

\* C5: the loop is left because of silence only when the polls since the last
\* poll that did not see a quiet chunk all saw a quiet chunk and span at least
\* the silence duration; a loud poll clears the run, and only polls from the
\* first quiet one on count (silence_start is always the time of that poll).
C5_SilenceStopNeedsFullRun ==
    /\ rpc \in { "top", "len", "tail", "sleep", "exit", "after" } => silence_start = QuietRunStart
    /\ stop_reason = "silence" =>
          /\ QuietRunStart # NoneTime
          /\ LastPoll.t - QuietRunStart >= silence_duration

\* a loud poll interrupted a quiet run, and the loop still stopped by silence later
C5_Witness ==
    /\ stop_reason = "silence"
    /\ \E j, k \in 1..Len(polls) : j < k /\ k < QuietRunFirst
                                    /\ polls[j].saw = "quiet" /\ polls[k].saw = "loud"

AllLoud == \A k \in 1..Len(delivered) : ~IsSilent(delivered[k])

AllQuiet == \A k \in 1..Len(delivered) : IsSilent(delivered[k])

\* the loop was left by one of its two breaks, not by an exception
StoppedNormally == rpc = "done" /\ stop_reason \in { "silence", "max" }

C6_Safety ==
    /\ rpc \in { "len", "tail", "sleep" } => current_time - start_time < max_duration
    /\ (StoppedNormally /\ AllLoud) =>
          /\ stop_reason = "max"
          /\ current_time - start_time >= max_duration
          /\ prev_time # NoneTime => prev_time - start_time < max_duration
          /\ delivered # << >> => rec_result = "true" /\ wav # << >>

\* C6: every call of record_audio ends; the loop body runs only while the
\* elapsed time is below the maximum duration, whatever the silence state; a
\* stream that is never silent is stopped by the maximum duration, at the
\* first poll at or after it, and the call then succeeds with a recording.
C6_RecordTerminates == <>(rpc = "done") /\ []C6_Safety

\* a never-silent stream was stopped at the maximum duration and recorded
C6_Witness ==
    /\ rpc = "done"
    /\ stop_reason = "max"
    /\ delivered # << >>
    /\ AllLoud
    /\ Len(polls) > 1
    /\ rec_result = "true"

\* the time of the first poll that saw a chunk, NoneTime if no poll did
FirstSeenTime ==
    IF \E k \in 1..Len(polls) : polls[k].saw # "none"
    THEN polls[CHOOSE k \in 1..Len(polls) :
                  polls[k].saw # "none" /\ \A j \in 1..(k - 1) : polls[j].saw = "none"].t
    ELSE NoneTime

\* an all-quiet stream, seen by some poll, with silence_duration < max_duration
AllQuietRun ==
    /\ StoppedNormally
    /\ AllQuiet
    /\ FirstSeenTime # NoneTime
    /\ silence_duration < max_duration

\* C7 as stated: an all-quiet stream stops the call not before a full silence
\* duration after the first poll that saw a chunk, at most one polling
\* interval after it, and the call succeeds with the buffer.
C7_Original ==
    AllQuietRun =>
        /\ current_time >= FirstSeenTime + silence_duration
        /\ prev_time < FirstSeenTime + silence_duration
        /\ rec_result = "true"
        /\ wav = ToPcm(delivered)

\* C7, amended: an all-quiet stream stops the call at most one polling
\* interval after a full silence duration has passed since the first poll
\* that saw a chunk, and not before it unless the maximum duration is reached
\* first; the call succeeds with the all-quiet buffer.
C7_QuietStreamStops ==
    AllQuietRun =>
        /\ prev_time < FirstSeenTime + silence_duration
        /\ \/ current_time >= FirstSeenTime + silence_duration
           \/ stop_reason = "max" /\ current_time - start_time >= max_duration
        /\ stop_reason = "silence" => current_time >= FirstSeenTime + silence_duration
        /\ rec_result = "true"
        /\ wav = ToPcm(delivered)

\* an all-quiet stream was stopped by silence, a full duration after it was first seen
C7_Witness ==
    /\ AllQuietRun
    /\ stop_reason = "silence"
    /\ current_time >= FirstSeenTime + silence_duration
    /\ rec_result = "true"

\* C8: the buffer holds the delivered chunks in arrival order, none lost,
\* overwritten or duplicated, under every interleaving; the tail is read only
\* of a non-empty buffer; the chunk inspected is the last one of the buffer at
\* the moment of the read.
C8_BufferAppendOnly ==
    /\ recording = delivered
    /\ rpc = "tail" => Len(recording) > 0
    /\ (polls # << >> /\ LastPoll.saw # "none") =>
          /\ LastPoll.len > 0
          /\ recent_audio = delivered[LastPoll.len]

\* a chunk arrived between the length test and the read, and the newer one was read
C8_Witness ==
    /\ rpc = "sleep"
    /\ Len(polls) > 1
    /\ LastPoll.len > 1
    /\ polls[Len(polls) - 1].saw = "none"
    /\ recent_audio = delivered[LastPoll.len]
    /\ recent_audio # delivered[1]

\* C9: once record_audio has returned or propagated, by silence, by maximum
\* duration, by a device error or by an interrupt, the stream is closed and
\* no further chunk can be appended.
C9_StreamReleased ==
    rpc = "done" => stream = "closed" /\ ~ENABLED Callback

\* an interrupt left the loop while the stream was delivering chunks
C9_Witness ==
    /\ rpc = "done"
    /\ stop_reason = "interrupt"
    /\ polls # << >>
    /\ delivered # << >>
    /\ Len(delivered) < MaxChunks
    /\ stream = "closed"

\* C10: a device error, during setup, capture or persistence, makes
\* record_audio return False; it is never raised to the caller.
C10_DeviceErrorReturnsFalse ==
    (rpc = "done" /\ stop_reason = "exception") => rec_result = "false"

\* the device failed in the middle of the capture and False was returned
C10_Witness ==
    /\ rpc = "done"
    /\ stop_reason = "exception"
    /\ polls # << >>
    /\ rec_result = "false"

\* the 16-bit samples of a series of chunks: chunk after chunk, sample after sample
RECURSIVE PcmOf(_)
PcmOf(chunks) ==
    IF chunks = << >> THEN << >>
    ELSE LET chunk == Head(chunks)
         IN  SubSeq([k \in 1..Len(chunk) |-> ToInt16(chunk[k])], 1, Len(chunk))
                 \o PcmOf(Tail(chunks))

\* C11: when the loop was left by silence or by the maximum duration and no
\* error followed, record_audio returns False and writes no file exactly when
\* the buffer is empty once the stream is closed; otherwise it returns True and
\* the file holds every chunk delivered during the call, in order of arrival
\* (a chunk delivered between the break and the close of the stream included).
C11_EmptyBufferIsNoSignal ==
    StoppedNormally =>
        /\ rec_result \in { "true", "false" }
        /\ rec_result = "false" <=> recording = << >>
        /\ recording = delivered
        /\ rec_result = "false" => wav = << >>
        /\ rec_result = "true" => wav = PcmOf(delivered)

\* the maximum duration passed before the device delivered anything: no file
C11_Witness ==
    /\ rpc = "done"
    /\ stop_reason = "max"
    /\ polls # << >>
    /\ delivered = << >>
    /\ rec_result = "false"
    /\ wav = << >>

(***************************************************************************)
(* Properties of the interview                                             *)
(***************************************************************************)
\* C1: every ScoreSet in the session log, whichever producer made it, has
\* exactly the categories that calculate_final_scores reads, each an integer
\* from 1 to 5, so aggregation never meets a missing or out-of-range category.
C1_LoggedScoreSetsFitAggregation ==
    \A k \in 1..Len(all_scores) : IsScoreSet(all_scores[k])

\* the sum of a category over the first k ScoreSets of the list
RECURSIVE CategoryTotal(_, _)
CategoryTotal(category, k) ==
    IF k = 0 THEN 0 ELSE CategoryTotal(category, k - 1) + all_scores[k][category]

\* C14: for a list of ScoreSets calculate_final_scores returns, for each of
\* the four categories, the arithmetic mean of the category rounded to two
\* decimals (the result, in hundredths, is within half a hundredth of the
\* mean), which lies between 1 and 5; one all-5 ScoreSet gives 5.0 in every
\* category; the empty list gives 0.0 in every category and does not fail.
C14_AveragesAreRoundedMeans ==
    ipc = "aggregated" =>
        /\ DOMAIN average_scores = CategorySet
        /\ \A c \in CategorySet :
              LET n == Len(all_scores)
                  total == CategoryTotal(c, n)
                  diff == 100 * total - n * average_scores[c]
              IN  IF n = 0 THEN average_scores[c] = 0
                  ELSE /\ 2 * diff <= n
                       /\ -2 * diff <= n
                       /\ average_scores[c] \in 100..500
        /\ all_scores = << UniformScores(5) >> =>
              \A c \in CategorySet : average_scores[c] = 500

\* three ScoreSets whose mean of a category, 11/3, was rounded up to 3.67
C14_Witness ==
    /\ ipc = "aggregated"
    /\ Len(all_scores) = 3
    /\ \E c \in CategorySet : CategoryTotal(c, 3) = 11 /\ average_scores[c] = 367

\* the sum of the category values of the AverageScoreSet, in hundredths
AverageTotal ==
    average_scores["Relevance"] + average_scores["Clarity"]
        + average_scores["Confidence"] + average_scores["Technical Accuracy"]

WordCount(text) == Len(Split(text))

\* the transcript is empty or has fewer than 5 words
Insufficient(text) == text = << >> \/ WordCount(text) < 5

\* C12: a follow-up capture is asked for exactly when the first transcript of
\* the question is empty or has fewer than 5 whitespace-delimited words (4
\* words: follow-up, 5 words: none); the test runs once, before scoring, on
\* the first transcript, so a question has at most one follow-up capture even
\* when the extended transcript is still short.
C12_FollowupIffInsufficient ==
    /\ followups <= 1
    /\ ipc = "fu_record" => followups = 0 /\ Insufficient(first_transcription)
    /\ ipc = "fu_transcribe" => followups = 1 /\ Insufficient(first_transcription)
    /\ ipc = "evaluate" =>
          /\ followups = 1 <=> Insufficient(first_transcription)
          /\ followups = 0 <=> followup_result = NoFollowup
          /\ WordCount(first_transcription) = 4 => followups = 1
          /\ WordCount(first_transcription) = 5 => followups = 0

\* one follow-up was joined to an empty answer, the transcript is still short,
\* and the question goes on to scoring
C12_Witness ==
    /\ ipc = "evaluate"
    /\ followups = 1
    /\ followup_result.stage = "transcribed"
    /\ cur_transcription # first_transcription
    /\ Insufficient(cur_transcription)

\* the keys of the ScoreSet that ask_coding_question logs
CodingCategories == { "Correctness", "Code Quality", "Efficiency", "Overall" }

\* the log has one record per question that returned True so far, in question
\* order, and the score list runs parallel to it
LogFollowsQuestions ==
    /\ Len(interview_data) = (IF qnum = 0 THEN 0 ELSE qnum - 1)
    /\ Len(all_scores) = Len(interview_data)
    /\ \A k \in 1..Len(interview_data) :
          /\ interview_data[k].question = questions[k]
          /\ interview_data[k].scores = all_scores[k]

\* a record of a spoken answer: question, final transcript, ScoreSet
IsAnswerRecord(record) ==
    /\ DOMAIN record = { "question", "transcription", "scores" }
    /\ IsScoreSet(record.scores)

\* a record of a code submission: question, code, the scores under the
\* code-evaluation keys, feedback
IsCodingRecord(record) ==
    /\ DOMAIN record = { "question", "code", "scores", "feedback" }
    /\ DOMAIN record.scores = CodingCategories

\* a step leaves both logs alone or adds one entry at the end of each; only
\* the end of ask_question and of ask_coding_question add, and a question
\* that fails adds nothing
LogOnlyGrowsAtEnd ==
    /\ \/ UNCHANGED << interview_data, all_scores >>
       \/ /\ ipc \in { "evaluate", "coding" }
          /\ failed_at' = failed_at
          /\ Len(interview_data') = Len(interview_data) + 1
          /\ SubSeq(interview_data', 1, Len(interview_data)) = interview_data
          /\ Len(all_scores') = Len(all_scores) + 1
          /\ SubSeq(all_scores', 1, Len(all_scores)) = all_scores
    /\ failed_at' # failed_at => UNCHANGED << interview_data, all_scores >>

\* C18: the session log is append-only and single-writer: at every point it
\* holds exactly one record per question processed successfully so far, in
\* question order; a record of a spoken answer holds the question's text, the
\* final transcript and a ScoreSet, a record of a code submission holds the
\* question's text, the code, the code-evaluation scores and the feedback; a
\* record in the log is never changed or removed, a failing question appends
\* nothing, and the score list has the length and order of the record log.
C18_AppendOnlyLog ==
    /\ [](/\ LogFollowsQuestions
          /\ \A k \in 1..Len(interview_data) :
                IF selected_role = "Coding Test"
                THEN IsCodingRecord(interview_data[k])
                ELSE IsAnswerRecord(interview_data[k]))
    /\ [][LogOnlyGrowsAtEnd]_vars

\* two spoken answers are logged in question order and the third question
\* failed without a record
C18_Witness ==
    /\ ipc = "exited"
    /\ failed_at = 3
    /\ Len(interview_data) = 2
    /\ interview_data[1].question = questions[1]
    /\ interview_data[2].question = questions[2]
    /\ questions[1] # questions[2]
    /\ IsAnswerRecord(interview_data[2])

\* C18 as stated: every record in the log holds the question's text, the
\* final transcript and a ScoreSet.
C18_EveryRecordHoldsTranscript ==
    /\ [](/\ LogFollowsQuestions
          /\ \A k \in 1..Len(interview_data) : IsAnswerRecord(interview_data[k]))
    /\ [][LogOnlyGrowsAtEnd]_vars

\* the transcript a question must be scored with: the first transcript, joined
\* by one space to the follow-up's text when a follow-up was recorded and
\* transcribed to a text that is not empty
ExpectedTranscription ==
    IF followup_result.stage = "transcribed" /\ followup_result.ok
                                             /\ followup_result.text # << >>
    THEN first_transcription \o << " " >> \o followup_result.text
    ELSE first_transcription

\* the ScoreSets evaluate_response can return for the current question and
\* the expected transcript
ExpectedScores ==
    { EvaluateResponse(eval_client, questions[qnum], ExpectedTranscription, outcome).value :
        outcome \in IF eval_client THEN InterviewRemoteOutcomes ELSE { NoRemoteCall } }

\* once the first transcript is there the question goes on to its scoring,
\* whatever happens to the follow-up, and the scoring step logs one record
\* with the expected transcript and its scores and moves to the next question
ScoredOnceAfterFollowup ==
    /\ ipc \in { "sufficiency", "fu_record", "fu_transcribe" } =>
          /\ ipc' \in { "fu_record", "fu_transcribe", "evaluate" }
          /\ failed_at' = failed_at
          /\ UNCHANGED << qnum, first_transcription, all_scores, interview_data >>
    /\ ipc = "evaluate" =>
          /\ ipc' = "conduct"
          /\ qnum' = qnum + 1
          /\ failed_at' = failed_at
          /\ Len(interview_data') = Len(interview_data) + 1
          /\ Len(all_scores') = Len(all_scores) + 1
          /\ interview_data'[Len(interview_data')].transcription = ExpectedTranscription
          /\ interview_data'[Len(interview_data')].scores \in ExpectedScores
          /\ all_scores'[Len(all_scores')] = interview_data'[Len(interview_data')].scores

\* C19: each question whose first capture and transcription succeed is scored
\* exactly once, after any follow-up: the scored and logged transcript is the
\* original joined with a single space to the follow-up transcript when the
\* follow-up was recorded and transcribed to non-empty text, and the
\* unchanged original in every other case; a failed follow-up never aborts
\* the question.
C19_ScoredOnceWithFollowup ==
    /\ [](ipc = "evaluate" => cur_transcription = ExpectedTranscription)
    /\ [](ipc = "sufficiency" => followup_result = NoFollowup)
    /\ [][ScoredOnceAfterFollowup]_vars

\* a short answer was extended by its follow-up and logged in the joined form
C19_Witness ==
    /\ Len(interview_data) >= 1
    /\ selected_role # "Coding Test"
    /\ interview_data[1].transcription = AnswerShort \o << " " >> \o FollowupText
    /\ interview_data[1].scores = all_scores[1]

\* no summary has been produced
NoSummary == average_scores = EmptyDict /\ recommendation = ""

\* after a failed question the interview is over: the question counter stays
\* at the failed question, the log holds the records of the questions before
\* it and nothing else, and there is no summary
StoppedAtFailure ==
    failed_at # 0 =>
        /\ ipc = "exited"
        /\ qnum = failed_at
        /\ Len(interview_data) = failed_at - 1
        /\ Len(all_scores) = failed_at - 1
        /\ NoSummary

\* the summary exists only in the final state, after every selected question
\* has appended its record, in question order
SummaryOnlyWhenComplete ==
    /\ ipc # "complete" => NoSummary
    /\ ipc = "complete" =>
          /\ failed_at = 0
          /\ recommendation # ""
          /\ Len(interview_data) = Len(questions)
          /\ \A k \in 1..Len(questions) : interview_data[k].question = questions[k]

\* the questions are taken one by one in their order, a failing primary
\* capture or transcription is the question's last step, and nothing follows
\* the end of the run
InOrderUntilFailure ==
    /\ ipc \notin { "exited", "complete" }
    /\ qnum' \in { qnum, qnum + 1 }
    /\ (ipc = "conduct" /\ ipc' \in { "record", "coding" }) => qnum \in 1..Len(questions)
    /\ (ipc = "record" /\ ipc' # "transcribe") => (ipc' = "exited" /\ failed_at' = qnum)
    /\ (ipc = "transcribe" /\ ipc' # "sufficiency") => (ipc' = "exited" /\ failed_at' = qnum)

\* C20: conduct_interview asks the questions strictly in order and stops at
\* the first question whose primary capture fails or whose transcription
\* returns no transcript: no later question is asked, nothing is scored for
\* the failed question, and no final summary is produced; the summary is
\* produced only after every selected question has appended its record.
C20_StopsAtFirstFailure ==
    /\ [](StoppedAtFailure /\ SummaryOnlyWhenComplete)
    /\ [][InOrderUntilFailure]_vars

\* the first answer was logged, the second question failed, and the run
\* ended there without a summary
C20_Witness ==
    /\ ipc = "exited"
    /\ failed_at = 2
    /\ selected_role # "Coding Test"
    /\ Len(questions) = 3
    /\ Len(interview_data) = 1
    /\ NoSummary

====
